---- MODULE Spec2Model ----
(***************************************************************************)
(* Query handler of the enterprise GenAI knowledge assistant               *)
(* (lambda/query_handler/app.py) with its governance handler               *)
(* (lambda/shared/governance_handler.py).                                  *)
(*                                                                         *)
(* A text is a sequence of tokens (words and whitespace tokens); offsets   *)
(* of PII entities are token offsets.  Time is counted in ticks of         *)
(* 1/TicksPerSecond second, so that int(time.time()) truncates.            *)
(***************************************************************************)
EXTENDS Integers, Sequences, FiniteSets, TLC

\* ------------------------------------------------------------------ bounds
MaxTicks == 2          \* clock advances in one behaviour
MaxFaulty == 1         \* external services that may fail in one behaviour
TicksPerSecond == 2    \* clock resolution
MaxHistory == 12       \* turns of a conversation history given to the scorer

\* ------------------------------------------------------- program constants
CACHE_TTL_SECONDS == 3600
HistoryLimit == 10
PromptHistoryWindow == 6
ShortChunkWords == 100
AdvancedThreshold == 60
StandardThreshold == 30
ScoreCap == 100

APOLOGY == "I apologize, but I'm experiencing technical difficulties. Please try again in a moment."
SAFE_MESSAGE == "I apologize, but I cannot provide this response due to content safety policies."

Requests == {"r1", "r2"}
Users == {"u1"}
Tiers == {"simple", "standard", "advanced"}

\* External services the handler calls; each may be unreachable.
\* (A failed embedding call yields a zero vector and the search goes on, so
\* the embedding service has no failure of its own here.)
Services == {"guardrail", "comprehend", "cloudwatch", "table", "audit_table",
             "logs", "s3", "sns", "search", "bedrock"}

\* ------------------------------------------------------------------- texts
SP == " "

qAdv == <<"Why", SP, "compare", SP, "security", SP, "performance", SP,
          "architecture", SP, "analyze", SP, "advantages">>
qStd == <<"Why", SP, "compare", SP, "security">>
qPii == <<"Bob", SP, "Smith", SP, "email", SP, "bob@x.com">>
qPii2 == <<"bob", SP, "smith", SP, "email", SP, "bob@x.com", SP>>
qStatus == <<"Status", SP, "Report">>
qStatus2 == <<"status", SP, "report", SP>>
qEmpty == <<>>

Texts == {qEmpty, qAdv, qStd, qPii, qPii2}

\* str.lower() on one token
LowerTok(tok) ==
    CASE tok = "Why" -> "why"
      [] tok = "Status" -> "status"
      [] tok = "Report" -> "report"
      [] tok = "Bob" -> "bob"
      [] tok = "Smith" -> "smith"
      [] OTHER -> tok

\* str.lower()
Lower(text) == [i \in 1..Len(text) |-> LowerTok(text[i])]

IsSpace(tok) == tok = SP

RECURSIVE LStrip(_)
LStrip(text) ==
    IF text # <<>> /\ IsSpace(Head(text)) THEN LStrip(Tail(text)) ELSE text

RECURSIVE RStrip(_)
RStrip(text) ==
    IF text # <<>> /\ IsSpace(text[Len(text)])
    THEN RStrip(SubSeq(text, 1, Len(text) - 1))
    ELSE text

\* str.strip()
Strip(text) == RStrip(LStrip(text))

\* str.split(): the words of a text
Split(text) == SelectSeq(text, LAMBDA tok : ~IsSpace(tok))

\* hashlib.md5(...).hexdigest(): one digest token per distinct input
MD5(text) == <<"md5">> \o text

\* the cache key of a query, as get_cached_response and cache_response build it
CacheKeyNoNormalise(query) == MD5(query)
CacheKey(query) == MD5(Strip(Lower(query)))

\* the partition key of the cache item: f"cache_{cache_key}"
CacheItemId(query) == <<"cache_">> \o CacheKey(query)

ConversationIds == {<<"conv", "c1">>}

\* --------------------------------------------------- complexity and tiers
Min(a, b) == IF a < b THEN a ELSE b

\* the keywords of the tables that occur inside a (lower-cased) token
Subs(tok) ==
    CASE tok = "disadvantages" -> {"disadvantages", "advantages"}
      [] tok = "however" -> {"however", "how"}
      [] OTHER -> {tok}

\* keyword in text  (substring test; a keyword is a sequence of tokens)
Contains(text, kw) ==
    \E i \in 1..Len(text) :
        /\ i + Len(kw) - 1 <= Len(text)
        /\ \A j \in 1..Len(kw) : kw[j] \in Subs(text[i + j - 1])

\* the keywords a (lower-cased) token begins with
Prefixes(tok) ==
    CASE tok = "however" -> {"however", "how"}
      [] tok = "whatever" -> {"whatever", "what"}
      [] OTHER -> {tok}

\* text.startswith(word)
StartsWith(text, word) == text # <<>> /\ word \in Prefixes(text[1])

complex_indicators == [
    comparison |-> {<<"compare">>, <<"difference", SP, "between">>, <<"versus">>, <<"vs">>},
    analysis |-> {<<"analyze">>, <<"evaluation">>, <<"assessment">>, <<"critique">>},
    explanation |-> {<<"explain">>, <<"why">>, <<"how", SP, "does">>, <<"what", SP, "causes">>},
    reasoning |-> {<<"pros", SP, "and", SP, "cons">>, <<"advantages">>, <<"disadvantages">>, <<"trade-offs">>},
    multi_step |-> {<<"first">>, <<"then">>, <<"finally">>, <<"step", SP, "by", SP, "step">>}]

technical_domains == [
    architecture |-> {<<"architecture">>, <<"design", SP, "pattern">>, <<"infrastructure">>, <<"topology">>},
    security |-> {<<"security">>, <<"authentication">>, <<"encryption">>, <<"vulnerability">>},
    performance |-> {<<"optimization">>, <<"performance">>, <<"latency">>, <<"throughput">>},
    implementation |-> {<<"implementation">>, <<"configuration">>, <<"deployment">>, <<"integration">>}]

\* question_types, in dictionary order
question_types == <<[w |-> "what", s |-> 5], [w |-> "how", s |-> 10], [w |-> "why", s |-> 15],
                    [w |-> "when", s |-> 5], [w |-> "where", s |-> 5], [w |-> "which", s |-> 10]>>

\* Factor 1: query length
LengthPoints(query) ==
    LET n == Len(Split(query)) IN
    IF n < 5 THEN 5 ELSE IF n < 10 THEN 10 ELSE IF n < 20 THEN 15 ELSE 20

\* Factor 2: conversation depth
DepthPoints(conversation_history) == Min(Len(conversation_history) * 3, 15)

\* Factors 3 and 4: 5 points for every family with a keyword in the query
FamilyPoints(query, families) ==
    5 * Cardinality({f \in DOMAIN families :
                        \E kw \in families[f] : Contains(Lower(query), kw)})

\* Factor 5: the first question word the query starts with
QuestionPoints(query) ==
    LET hits == {i \in 1..Len(question_types) :
                    StartsWith(Lower(query), question_types[i].w)} IN
    IF hits = {} THEN 0
    ELSE question_types[CHOOSE i \in hits : \A j \in hits : i <= j].s

\* the score with neither the cap on the depth points nor the final cap
analyze_query_complexity_uncapped(query, conversation_history) ==
    LengthPoints(query) + Len(conversation_history) * 3
        + FamilyPoints(query, complex_indicators)
        + FamilyPoints(query, technical_domains)
        + QuestionPoints(query)

analyze_query_complexity(query, conversation_history) ==
    Min(LengthPoints(query) + DepthPoints(conversation_history)
        + FamilyPoints(query, complex_indicators)
        + FamilyPoints(query, technical_domains)
        + QuestionPoints(query), ScoreCap)

\* the mapping with strict thresholds
TierOfScoreStrict(score) ==
    IF score > AdvancedThreshold THEN "advanced"
    ELSE IF score > StandardThreshold THEN "standard"
    ELSE "simple"

\* select_model_tier, lines 470-475: the tier of a score
TierOfScore(score) ==
    IF score >= AdvancedThreshold THEN "advanced"
    ELSE IF score >= StandardThreshold THEN "standard"
    ELSE "simple"

select_model_tier(query, conversation_history) ==
    TierOfScore(analyze_query_complexity(query, conversation_history))

\* models: id, max_tokens, temperature (in tenths), cost per 1k tokens (in 1e-5 $)
models == [
    simple |-> [id |-> "anthropic.claude-3-haiku-20240307-v1:0", max_tokens |-> 1000,
                temperature |-> 2, cost_per_1k_input |-> 25, cost_per_1k_output |-> 125],
    standard |-> [id |-> "anthropic.claude-3-sonnet-20240229-v1:0", max_tokens |-> 2000,
                  temperature |-> 7, cost_per_1k_input |-> 800, cost_per_1k_output |-> 2400],
    advanced |-> [id |-> "anthropic.claude-3-5-sonnet-20240620-v1:0", max_tokens |-> 4000,
                  temperature |-> 7, cost_per_1k_input |-> 300, cost_per_1k_output |-> 1500]]

\* a chain that skips the middle tier
fallback_chain_skipping == [
    advanced |-> <<"advanced", "simple">>,
    standard |-> <<"standard", "simple">>,
    simple |-> <<"simple">>]

fallback_chain == [
    advanced |-> <<"advanced", "standard", "simple">>,
    standard |-> <<"standard", "simple">>,
    simple |-> <<"simple">>]

\* ------------------------------------------------------- fallback invoker
\* the text the inference service generates when the call to a tier succeeds
GenText(tier) ==
    CASE tier = "simple" -> "answer of simple"
      [] tier = "standard" -> "answer of standard"
      [] OTHER -> "answer of advanced"

\* one call of invoke_model: what is sent to the inference service
ModelCall(tier, prompt, temperature) ==
    [tier |-> tier, model_id |-> models[tier].id,
     max_tokens |-> models[tier].max_tokens, temperature |-> temperature,
     prompt |-> prompt]

\* The loop of invoke_model_with_fallback from position i of the chain.
\* up is the set of tiers whose invocation succeeds; calls are the
\* invocations made so far.  Falling off the loop returns None.
RECURSIVE FallbackLoop(_, _, _, _, _, _)
FallbackLoop(tiers_to_try, i, prompt, temperature, up, calls) ==
    IF i > Len(tiers_to_try)
    THEN [text |-> "None", is_text |-> FALSE, answered |-> "none", calls |-> calls]
    ELSE LET tier == tiers_to_try[i]
             made == Append(calls, ModelCall(tier, prompt, temperature))
         IN  IF tier \in up
             THEN [text |-> GenText(tier), is_text |-> TRUE,
                   answered |-> tier, calls |-> made]
             ELSE IF tier = tiers_to_try[Len(tiers_to_try)]
             THEN [text |-> APOLOGY, is_text |-> TRUE,
                   answered |-> "none", calls |-> made]
             ELSE FallbackLoop(tiers_to_try, i + 1, prompt, temperature, up, made)

\* a fallback loop that gives up after the first failure
FallbackNoRetry(model_tier, prompt, max_tokens, temperature, up) ==
    FallbackLoop(<<model_tier>>, 1, prompt, temperature, up, <<>>)

invoke_model_with_fallback(model_tier, prompt, max_tokens, temperature, up) ==
    FallbackLoop(IF model_tier \in DOMAIN fallback_chain
                 THEN fallback_chain[model_tier] ELSE <<"simple">>,
                 1, prompt, temperature, up, <<>>)

\* invoke_model_streaming: one call of invoke_model; a failure is raised
invoke_model_streaming(tier, prompt, temperature, up) ==
    [text |-> IF tier \in up THEN GenText(tier) ELSE "None",
     is_text |-> tier \in up, raised |-> tier \notin up,
     answered |-> IF tier \in up THEN tier ELSE "none",
     calls |-> <<ModelCall(tier, prompt, temperature)>>]

\* --------------------------------------------------------------------- PII
\* the entities of a text the detector can report (token offsets)
EntitiesOf(text) ==
    IF text \in {qPii, qPii2}
    THEN <<[Type |-> "NAME", BeginOffset |-> 0, EndOffset |-> 3],
           [Type |-> "EMAIL", BeginOffset |-> 6, EndOffset |-> 7]>>
    ELSE <<>>

\* what detect_pii_entities may answer for a text
DetectorAnswers(text) == {<<>>, EntitiesOf(text)}

Placeholder(entity_type) ==
    CASE entity_type = "NAME" -> "[NAME]"
      [] entity_type = "EMAIL" -> "[EMAIL]"
      [] OTHER -> "[PII]"

\* sorted(entities, key=BeginOffset, reverse=True)
RECURSIVE SortByBeginDesc(_)
SortByBeginDesc(entities) ==
    IF entities = <<>> THEN <<>>
    ELSE LET k == CHOOSE i \in 1..Len(entities) :
                     \A j \in 1..Len(entities) :
                         \/ entities[i].BeginOffset > entities[j].BeginOffset
                         \/ (entities[i].BeginOffset = entities[j].BeginOffset /\ i <= j)
             rest == [j \in 1..(Len(entities) - 1) |->
                         IF j < k THEN entities[j] ELSE entities[j + 1]]
         IN  <<entities[k]>> \o SortByBeginDesc(rest)

\* text[:start] + placeholder + text[end:]
ReplaceSpan(text, start, end, placeholder) ==
    SubSeq(text, 1, Min(start, Len(text))) \o <<placeholder>>
        \o SubSeq(text, Min(end, Len(text)) + 1, Len(text))

RECURSIVE RedactAll(_, _)
RedactAll(text, entities_sorted) ==
    IF entities_sorted = <<>> THEN text
    ELSE RedactAll(ReplaceSpan(text, Head(entities_sorted).BeginOffset,
                               Head(entities_sorted).EndOffset,
                               Placeholder(Head(entities_sorted).Type)),
                   Tail(entities_sorted))

Redact(text, entities) == RedactAll(text, SortByBeginDesc(entities))

\* ------------------------------------------------------------------- state
VARIABLES
    now,      \* the clock, in ticks
    ticks,    \* clock advances so far
    faulty,   \* the external services that may fail
    config,   \* governance handler available, GUARDRAIL_ID set
    table,    \* the CONVERSATION_TABLE items (conversation turns and cache entries)
    pc,       \* where each request is in handler
    req,      \* the request body
    loc,      \* the local variables of handler
    calls,    \* the external operations each request has performed, in order
    sent,     \* what each request sent to retrieval and to the inference service
    audit,    \* the audit events each request emitted, in order
    resp      \* the response returned

vars == <<now, ticks, faulty, config, table, pc, req, loc, calls, sent, audit, resp>>

\* outcomes of a call to a service: it can fail only if the service is faulty
Ok(svc) == IF svc \in faulty THEN BOOLEAN ELSE {TRUE}

OkIf(called, svc) == IF called THEN Ok(svc) ELSE {TRUE}

\* time.time() in whole seconds: int(time.time())
Seconds(t) == t \div TicksPerSecond

\* ------------------------------------------------------------ audit logger
LogsOutcomes == IF "logs" \in faulty
                THEN {"ok", "no_stream_retry_ok", "no_stream_retry_failed", "error"}
                ELSE {"ok"}

\* the outcomes of the writes of one log_audit_event call: put_item, then
\* put_log_events, then s3.put_object, then sns.publish; a write that is not
\* reached has no outcome of its own
AuditOutcomes ==
    {o \in [put_item : Ok("audit_table"), logs : LogsOutcomes,
            s3 : Ok("s3"), sns : Ok("sns")] :
        /\ (~o.put_item => (o.logs = "ok" /\ o.s3 /\ o.sns))
        /\ (o.logs = "error" => (o.s3 /\ o.sns))
        /\ (~o.s3 => o.sns)}

AllWritten == [put_item |-> TRUE, logs |-> "ok", s3 |-> TRUE, sns |-> TRUE]

\* the outcomes to draw for an event that is emitted only under a condition
AuditOutcomesIf(emitted) == IF emitted THEN AuditOutcomes ELSE {AllWritten}

\* log_audit_event without the early exits on a failed log stream or archive write
log_audit_event_no_abort(event_type, user_id, severity, o) ==
    [event_type |-> event_type, user_id |-> user_id, severity |-> severity,
     stored |-> o.put_item,
     streamed |-> o.put_item /\ o.logs \in {"ok", "no_stream_retry_ok"},
     archived |-> o.put_item /\ o.s3,
     alert_sent |-> o.put_item /\ severity \in {"HIGH", "CRITICAL"},
     alerted |-> o.put_item /\ severity \in {"HIGH", "CRITICAL"} /\ o.sns]

\* log_audit_event: the event as emitted, with what became of each destination
log_audit_event(event_type, user_id, severity, o) ==
    LET stored == o.put_item
        logs_raised == o.logs = "error"
        streamed == stored /\ o.logs \in {"ok", "no_stream_retry_ok"}
        archived == stored /\ ~logs_raised /\ o.s3
        alert_sent == archived /\ severity \in {"HIGH", "CRITICAL"}
    IN  [event_type |-> event_type, user_id |-> user_id, severity |-> severity,
         stored |-> stored, streamed |-> streamed, archived |-> archived,
         alert_sent |-> alert_sent, alerted |-> alert_sent /\ o.sns]

\* severity of the QUERY_PROCESSED event, as log_query_event computes it
QuerySeverity(has_pii, guardrail_allowed) ==
    IF has_pii \/ ~guardrail_allowed THEN "HIGH" ELSE "INFO"

\* ------------------------------------------------------- governance checks
\* action reported by apply_guardrail, or an error of the call
GuardrailAnswers == {"NONE", "GUARDRAIL_INTERVENED"}
                        \cup (IF "guardrail" \in faulty THEN {"error"} ELSE {})

\* check_content_safety with the verdict of an intervention left out
check_content_safety_always_safe(answer, o) ==
    [safe |-> TRUE,
     events |-> IF answer = "GUARDRAIL_INTERVENED"
                THEN <<log_audit_event("CONTENT_BLOCKED", "anonymous", "MEDIUM", o)>>
                ELSE <<>>]

\* check_content_safety failing closed: an error of the call is answered unsafe
check_content_safety_fail_closed(answer, o) ==
    IF answer = "GUARDRAIL_INTERVENED"
    THEN [safe |-> FALSE,
          events |-> <<log_audit_event("CONTENT_BLOCKED", "anonymous", "MEDIUM", o)>>]
    ELSE [safe |-> answer # "error", events |-> <<>>]

\* check_content_safety: an intervention is logged and answered safe = False;
\* an error of the call fails open
check_content_safety(answer, o) ==
    IF answer = "GUARDRAIL_INTERVENED"
    THEN [safe |-> FALSE,
          events |-> <<log_audit_event("CONTENT_BLOCKED", "anonymous", "MEDIUM", o)>>]
    ELSE [safe |-> TRUE, events |-> <<>>]

\* validate_response_safety with the verdict of an intervention left out
validate_response_safety_always_safe(answer, o) ==
    [safe |-> TRUE,
     events |-> IF answer = "GUARDRAIL_INTERVENED"
                THEN <<log_audit_event("RESPONSE_BLOCKED", "anonymous", "HIGH", o)>>
                ELSE <<>>]

\* validate_response_safety: the same for a generated response
validate_response_safety(answer, o) ==
    IF answer = "GUARDRAIL_INTERVENED"
    THEN [safe |-> FALSE,
          events |-> <<log_audit_event("RESPONSE_BLOCKED", "anonymous", "HIGH", o)>>]
    ELSE [safe |-> TRUE, events |-> <<>>]

\* the answers to draw for a guardrail call that is made only under a condition
GuardrailAnswersIf(called) == IF called THEN GuardrailAnswers ELSE {"NONE"}

\* what detect_pii_entities answers: a list of entities, or an error
PiiAnswers(text) ==
    {[error |-> FALSE, entities |-> e] : e \in DetectorAnswers(text)}
        \cup (IF "comprehend" \in faulty
              THEN {[error |-> TRUE, entities |-> <<>>]} ELSE {})

\* detect_and_redact_pii that forgets to use the redacted text
detect_and_redact_pii_unredacted(text, answer, metric_ok) ==
    [has_pii |-> ~answer.error /\ answer.entities # <<>> /\ metric_ok,
     redacted_text |-> text,
     logged |-> ~answer.error /\ answer.entities # <<>>]

\* detect_and_redact_pii: the result, and whether PII_DETECTED was logged.
\* A failure of the metric emission after detection lands in the except
\* branch, which answers has_pii = False with the text as given.
detect_and_redact_pii(text, answer, metric_ok) ==
    IF answer.error \/ answer.entities = <<>>
    THEN [has_pii |-> FALSE, redacted_text |-> text, logged |-> FALSE]
    ELSE IF metric_ok
    THEN [has_pii |-> TRUE, redacted_text |-> Redact(text, answer.entities),
          logged |-> TRUE]
    ELSE [has_pii |-> FALSE, redacted_text |-> text, logged |-> TRUE]

\* --------------------------------------------------- conversation table
SameKey(a, b) == a.conversation_id = b.conversation_id /\ a.timestamp = b.timestamp

\* a put that appends, never replacing the item stored under the same key
PutItemAppend(tbl, item) == tbl \cup {item}

\* table.put_item: an item with the same key is replaced
PutItem(tbl, item) == {i \in tbl : ~SameKey(i, item)} \cup {item}

\* dict.get(field, default) on an item
Get(item, field, default) == IF field \in DOMAIN item THEN item[field] ELSE default

\* the items of a set, in ascending order of timestamp
RECURSIVE AscendingByTimestamp(_)
AscendingByTimestamp(items) ==
    IF items = {} THEN <<>>
    ELSE LET first == CHOOSE i \in items : \A j \in items : i.timestamp <= j.timestamp
         IN  <<first>> \o AscendingByTimestamp(items \ {first})

FirstN(seq, n) == SubSeq(seq, 1, Min(n, Len(seq)))
LastN(seq, n) == SubSeq(seq, Len(seq) - Min(n, Len(seq)) + 1, Len(seq))

\* get_conversation_history: query by partition key, ascending, Limit=10
get_conversation_history(tbl, conversation_id, ok) ==
    IF ~ok THEN <<>>
    ELSE FirstN(AscendingByTimestamp({i \in tbl : i.conversation_id = conversation_id}),
                HistoryLimit)

\* store_conversation: one item per (conversation_id, whole second)
store_conversation(tbl, conversation_id, query, response, t, ok) ==
    IF ~ok THEN tbl
    ELSE PutItem(tbl, [conversation_id |-> conversation_id, timestamp |-> Seconds(t),
                       query |-> query, response |-> response,
                       ttl |-> Seconds(t) + 30 * 24 * 60 * 60])

NoData == [cached |-> FALSE]

CacheItems(tbl, query) ==
    {i \in tbl : i.conversation_id = CacheItemId(query) /\ i.timestamp = 0}

\* the comparison with an entry of exactly ttl seconds still counting as fresh
FreshOffByOne(t, cached_at) == t - cached_at * TicksPerSecond <= CACHE_TTL_SECONDS * TicksPerSecond

\* time.time() - cached_at < CACHE_TTL_SECONDS, the clock read in ticks
Fresh(t, cached_at) == t - cached_at * TicksPerSecond < CACHE_TTL_SECONDS * TicksPerSecond

\* a lookup that answers a failed read as a hit with an empty payload
get_cached_response_error_as_hit(tbl, query, t, ok) ==
    IF ~ok THEN [hit |-> TRUE, data |-> NoData]
    ELSE IF CacheItems(tbl, query) = {} THEN [hit |-> FALSE, data |-> NoData]
    ELSE LET cached_item == CHOOSE i \in CacheItems(tbl, query) : TRUE IN
         IF Fresh(t, Get(cached_item, "cached_at", 0))
         THEN [hit |-> TRUE, data |-> Get(cached_item, "response_data", NoData)]
         ELSE [hit |-> FALSE, data |-> NoData]

\* get_cached_response: the stored payload, or a miss (None)
get_cached_response(tbl, query, t, ok) ==
    IF ~ok \/ CacheItems(tbl, query) = {}
    THEN [hit |-> FALSE, data |-> NoData]
    ELSE LET cached_item == CHOOSE i \in CacheItems(tbl, query) : TRUE IN
         IF Fresh(t, Get(cached_item, "cached_at", 0))
         THEN [hit |-> TRUE, data |-> Get(cached_item, "response_data", NoData)]
         ELSE [hit |-> FALSE, data |-> NoData]

\* cache_response
cache_response(tbl, query, response_data, t, ok) ==
    IF ~ok THEN tbl
    ELSE PutItem(tbl, [conversation_id |-> CacheItemId(query), timestamp |-> 0,
                       query |-> query, response_data |-> response_data,
                       cached_at |-> Seconds(t),
                       ttl |-> Seconds(t) + CACHE_TTL_SECONDS])

\* ------------------------------------------------- retrieval and prompting
\* the hits the search service returns for a query, best first (scores in 1/100)
IndexHits == <<[document_id |-> "doc-1", chunk_id |-> "doc-1#0",
                text |-> <<"security", SP, "architecture">>, score |-> 90],
               [document_id |-> "doc-2", chunk_id |-> "doc-2#0",
                text |-> <<"compare", SP, "security", SP, "performance">>, score |-> 80]>>

\* retrieve_relevant_chunks: an error of the search yields the empty list
retrieve_relevant_chunks(query, max_results, ok) ==
    IF ok THEN FirstN(IndexHits, max_results) ELSE <<>>

Terms(text) == {Lower(text)[i] : i \in {j \in 1..Len(text) : ~IsSpace(text[j])}}

\* adjusted_score of a chunk, times 1000 * max(1, number of query terms)
AdjustedScore(query, chunk) ==
    LET query_terms == Terms(query)
        n == IF query_terms = {} THEN 1 ELSE Cardinality(query_terms)
        overlap == Cardinality(query_terms \cap Terms(chunk.text))
        penalty == IF Len(Split(chunk.text)) < ShortChunkWords THEN 8 ELSE 10
    IN  chunk.score * penalty * (10 * n + 3 * overlap)

\* sorted(chunks, key=adjusted_score, reverse=True): stable
RECURSIVE SortByAdjustedDesc(_)
SortByAdjustedDesc(chunks) ==
    IF chunks = <<>> THEN <<>>
    ELSE LET k == CHOOSE i \in 1..Len(chunks) :
                     \A j \in 1..Len(chunks) :
                         \/ chunks[i].adjusted_score > chunks[j].adjusted_score
                         \/ (chunks[i].adjusted_score = chunks[j].adjusted_score /\ i <= j)
             rest == [j \in 1..(Len(chunks) - 1) |->
                         IF j < k THEN chunks[j] ELSE chunks[j + 1]]
         IN  <<chunks[k]>> \o SortByAdjustedDesc(rest)

rerank_chunks(query, chunks, top_k) ==
    IF chunks = <<>> THEN chunks
    ELSE FirstN(SortByAdjustedDesc(
                    [i \in 1..Len(chunks) |->
                        [document_id |-> chunks[i].document_id,
                         chunk_id |-> chunks[i].chunk_id,
                         text |-> chunks[i].text,
                         score |-> chunks[i].score,
                         adjusted_score |-> AdjustedScore(query, chunks[i])]]),
                top_k)

\* construct_prompt: the parts of the prompt string, in order
construct_prompt(query, relevant_chunks, conversation_history) ==
    [context |-> [i \in 1..Len(relevant_chunks) |->
                    [relevance |-> relevant_chunks[i].score,
                     text |-> relevant_chunks[i].text]],
     history |-> [i \in 1..Len(LastN(conversation_history, PromptHistoryWindow)) |->
                    [human |-> Get(LastN(conversation_history, PromptHistoryWindow)[i],
                                   "query", <<>>),
                     assistant |-> Get(LastN(conversation_history, PromptHistoryWindow)[i],
                                       "response", "")]],
     query |-> query]

\* count_tokens, the fallback estimation applied to the parts of a prompt
PromptTokens(prompt) == 40 + 4 * Len(prompt.context) + 4 * Len(prompt.history)
                           + Len(prompt.query)
ResponseTokens(response) == IF response = APOLOGY THEN 22
                            ELSE IF response = SAFE_MESSAGE THEN 20 ELSE 4

\* calculate_cost, in 1e-8 $
calculate_cost(prompt_tokens, response_tokens, model_config) ==
    prompt_tokens * model_config.cost_per_1k_input
        + response_tokens * model_config.cost_per_1k_output

\* ----------------------------------------------------------------- handler
NoPrompt == construct_prompt(<<>>, <<>>, <<>>)

LocInit == [conversation_id |-> <<>>, user_id |-> "anonymous",
            received_at |-> 0, preceded_by |-> {}, cache_read_ok |-> FALSE,
            input_check_error |-> FALSE, pii_error |-> FALSE,
            output_check_error |-> FALSE,
            has_pii |-> FALSE, pii_found |-> FALSE, query_for_processing |-> <<>>,
            conversation_history |-> <<>>, model_tier |-> "none",
            complexity_score |-> 0, relevant_chunks |-> <<>>, prompt |-> NoPrompt,
            generated |-> "", response |-> "", up |-> {}, answered |-> "none",
            input_blocked |-> FALSE, output_blocked |-> FALSE, cost |-> 0,
            cache_hit |-> FALSE, cache_written |-> FALSE, cache_written_at |-> 0]

SentInit == [retrieval |-> <<>>, inference |-> <<>>]

NoResponse == [status |-> 0, error |-> "", data |-> NoData]

\* the request bodies: query missing, empty, or a text
Bodies ==
    {[has_query |-> h, query |-> q, conversation_id |-> c, stream |-> s, user_id |-> u] :
        h \in BOOLEAN, q \in Texts, c \in ConversationIds \cup {<<>>},
        s \in BOOLEAN, u \in Users}

ValidBody(b) == b.has_query \/ (b.query = <<>> /\ b.conversation_id = <<>> /\ ~b.stream)

Configs == {[governance |-> TRUE, guardrail_id |-> TRUE],
            [governance |-> TRUE, guardrail_id |-> FALSE],
            [governance |-> FALSE, guardrail_id |-> TRUE]}

Init ==
    /\ now = TicksPerSecond
    /\ ticks = 0
    /\ faulty \in {S \in SUBSET Services : Cardinality(S) <= MaxFaulty}
    /\ config \in Configs
    /\ table = {}
    /\ pc = [r \in Requests |-> "idle"]
    /\ req = [r \in Requests |->
                [has_query |-> FALSE, query |-> <<>>, conversation_id |-> <<>>,
                 stream |-> FALSE, user_id |-> "u1"]]
    /\ loc = [r \in Requests |-> LocInit]
    /\ calls = [r \in Requests |-> <<>>]
    /\ sent = [r \in Requests |-> SentInit]
    /\ audit = [r \in Requests |-> <<>>]
    /\ resp = [r \in Requests |-> NoResponse]

\* the clock advances
TickSteps == {1, CACHE_TTL_SECONDS * TicksPerSecond - 1}

\* The clock is read by the cache lookup, the turn write and the cache write
\* only, so it advances right before one of them.
ClockReaders == {"cache_lookup", "record", "cache_store"}

Tick ==
    /\ ticks < MaxTicks
    /\ \E r \in Requests : pc[r] \in ClockReaders
    /\ \E d \in TickSteps : now' = now + d
    /\ ticks' = ticks + 1
    /\ UNCHANGED <<faulty, config, table, pc, req, loc, calls, sent, audit, resp>>

\* create_response(status, {'error': ...})
ErrorResponse(status, error) == [status |-> status, error |-> error, data |-> NoData]

\* if not query: a missing query or the empty string
NotQueryMissingOnly(body) == ~body.has_query
NotQuery(body) == ~body.has_query \/ body.query = <<>>

\* handler, lines 129-144: parse the body, reject a missing query
Receive(r, bodies) ==
    /\ pc[r] = "idle"
    /\ \E body \in bodies :
        /\ req' = [req EXCEPT ![r] = body]
        /\ IF NotQuery(body)
           THEN /\ resp' = [resp EXCEPT ![r] = ErrorResponse(400, "Missing query parameter")]
                /\ pc' = [pc EXCEPT ![r] = "done"]
                /\ loc' = loc
           ELSE /\ pc' = [pc EXCEPT ![r] = "prechecks"]
                /\ resp' = resp
                /\ loc' = [loc EXCEPT ![r].conversation_id =
                                IF body.conversation_id = <<>> THEN <<"uuid", r>>
                                ELSE body.conversation_id,
                            ![r].user_id = body.user_id,
                            ![r].received_at = now,
                            ![r].preceded_by = {q \in Requests : pc[q] = "done"}]
    /\ UNCHANGED <<now, ticks, faulty, config, table, calls, sent, audit>>

\* handler, lines 146-177: Bedrock guardrail on the input, then PII
\* detection and redaction (detect_pii, without redaction, when the
\* governance handler is not available)
PreChecks(r) ==
    /\ pc[r] = "prechecks"
    /\ \E answer \in GuardrailAnswersIf(config.governance /\ config.guardrail_id),
          pii_answer \in PiiAnswers(req[r].query) :
       \E o1 \in AuditOutcomesIf(answer = "GUARDRAIL_INTERVENED"),
          metric_ok \in OkIf(pii_answer.entities # <<>>, "cloudwatch"),
          o2 \in AuditOutcomesIf(config.governance /\ pii_answer.entities # <<>>) :
        LET guarded == config.governance /\ config.guardrail_id
            guardrail_result == check_content_safety(answer, o1)
            blocked == guarded /\ ~guardrail_result.safe
            found == ~pii_answer.error /\ pii_answer.entities # <<>>
            pii_result == detect_and_redact_pii(req[r].query, pii_answer, metric_ok)
            has_pii == IF config.governance THEN pii_result.has_pii ELSE found
        IN  /\ audit' = [audit EXCEPT ![r] =
                    (@ \o (IF guarded THEN guardrail_result.events ELSE <<>>))
                       \o (IF ~blocked /\ config.governance /\ pii_result.logged
                           THEN <<log_audit_event("PII_DETECTED", loc[r].user_id, "HIGH", o2)>>
                           ELSE <<>>)]
            /\ calls' = [calls EXCEPT ![r] =
                    (@ \o (IF guarded THEN <<"apply_guardrail_input">> ELSE <<>>))
                       \o (IF blocked THEN <<>>
                           ELSE IF config.governance /\ found
                           THEN <<"detect_pii_entities", "put_metric_data">>
                           ELSE <<"detect_pii_entities">>)]
            /\ IF blocked
               THEN /\ resp' = [resp EXCEPT ![r] =
                            ErrorResponse(400, "Content blocked by safety guardrails")]
                    /\ pc' = [pc EXCEPT ![r] = "done"]
                    /\ loc' = [loc EXCEPT ![r].input_blocked = TRUE,
                                          ![r].input_check_error = answer = "error"]
               ELSE /\ resp' = resp
                    /\ pc' = [pc EXCEPT ![r] = "history"]
                    /\ loc' = [loc EXCEPT
                            ![r].input_blocked = guarded /\ answer = "GUARDRAIL_INTERVENED",
                            ![r].input_check_error = answer = "error",
                            ![r].pii_error = pii_answer.error,
                            ![r].pii_found = found,
                            ![r].has_pii = has_pii,
                            ![r].query_for_processing =
                                IF config.governance /\ has_pii
                                THEN pii_result.redacted_text ELSE req[r].query]
    /\ UNCHANGED <<now, ticks, faulty, config, table, req, sent>>

\* handler, line 180: read the conversation history
GetHistory(r) ==
    /\ pc[r] = "history"
    /\ \E ok \in Ok("table") :
        loc' = [loc EXCEPT ![r].conversation_history =
                    get_conversation_history(table, loc[r].conversation_id, ok)]
    /\ calls' = [calls EXCEPT ![r] = Append(@, "query_history")]
    /\ pc' = [pc EXCEPT ![r] = "cache_lookup"]
    /\ UNCHANGED <<now, ticks, faulty, config, table, req, sent, audit, resp>>

\* the body of a cache hit: {**cached_response, 'cached': True, 'cache_age_seconds': ...}
HitBody(cached_response) ==
    [f \in (DOMAIN cached_response) \cup {"cached", "cache_age_seconds"} |->
        IF f = "cached" THEN TRUE
        ELSE IF f = "cache_age_seconds" THEN 0
        ELSE cached_response[f]]

\* handler, lines 182-196: a cache hit is returned at once; on a miss the
\* model tier is selected
CacheLookup(r) ==
    /\ pc[r] = "cache_lookup"
    /\ \E ok \in Ok("table") :
        LET cached_response == get_cached_response(table, req[r].query, now, ok) IN
        IF cached_response.hit
        THEN /\ resp' = [resp EXCEPT ![r] =
                    [status |-> 200, error |-> "", data |-> HitBody(cached_response.data)]]
             /\ pc' = [pc EXCEPT ![r] = "done"]
             /\ loc' = [loc EXCEPT ![r].cache_hit = TRUE, ![r].cache_read_ok = ok]
        ELSE /\ resp' = resp
             /\ pc' = [pc EXCEPT ![r] = "generate"]
             /\ loc' = [loc EXCEPT
                    ![r].cache_read_ok = ok,
                    ![r].model_tier =
                        select_model_tier(req[r].query, loc[r].conversation_history),
                    ![r].complexity_score =
                        analyze_query_complexity(req[r].query, loc[r].conversation_history)]
    /\ calls' = [calls EXCEPT ![r] = Append(@, "get_cache_item")]
    /\ UNCHANGED <<now, ticks, faulty, config, table, req, sent, audit>>

\* the tiers whose invocation succeeds, as the inference service decides,
\* among the tiers a request of this tier can call
ChainTiers(model_tier) ==
    {fallback_chain[model_tier][i] : i \in 1..Len(fallback_chain[model_tier])}

UpSets(model_tier) ==
    IF "bedrock" \in faulty THEN SUBSET ChainTiers(model_tier)
    ELSE {ChainTiers(model_tier)}

InvokeCalls(n) == [i \in 1..n |-> "invoke_model"]

\* handler, lines 198-250: retrieval, re-ranking, prompt,
\* model invocation (lines 337-351 when the streaming call raises), guardrail
\* on the output, cost
Generate(r) ==
    /\ pc[r] = "generate"
    /\ \E ok \in Ok("search"), up \in UpSets(loc[r].model_tier),
          answer \in GuardrailAnswersIf(config.governance /\ config.guardrail_id) :
       \E o1 \in AuditOutcomesIf(answer = "GUARDRAIL_INTERVENED"),
          o2 \in AuditOutcomesIf(answer = "GUARDRAIL_INTERVENED") :
        LET query == req[r].query
            history == loc[r].conversation_history
            model_tier == loc[r].model_tier
            model_config == models[model_tier]
            chunks == rerank_chunks(query,
                        retrieve_relevant_chunks(loc[r].query_for_processing, 5, ok), 5)
            prompt == construct_prompt(loc[r].query_for_processing, chunks, history)
            result == IF req[r].stream
                      THEN invoke_model_streaming(model_tier, prompt,
                                                  model_config.temperature, up)
                      ELSE invoke_model_with_fallback(model_tier, prompt,
                                model_config.max_tokens, model_config.temperature, up)
            raised == req[r].stream /\ result.raised
            guarded == config.governance /\ config.guardrail_id
            response_safety == validate_response_safety(answer, o1)
            blocked == guarded /\ ~response_safety.safe
            response == IF blocked THEN SAFE_MESSAGE ELSE result.text
            \* count_tokens(None) raises
            no_text == ~blocked /\ ~result.is_text
        IN  /\ sent' = [sent EXCEPT ![r].retrieval = Append(@, loc[r].query_for_processing),
                                    ![r].inference = result.calls]
            /\ calls' = [calls EXCEPT ![r] =
                    ((@ \o <<"embed", "search">>) \o InvokeCalls(Len(result.calls)))
                        \o (IF guarded /\ ~raised THEN <<"apply_guardrail_output">> ELSE <<>>)]
            /\ audit' = [audit EXCEPT ![r] =
                    IF raised \/ ~guarded THEN @
                    ELSE (@ \o response_safety.events)
                            \o (IF blocked
                                THEN <<log_audit_event("RESPONSE_BLOCKED", loc[r].user_id,
                                                       "HIGH", o2)>>
                                ELSE <<>>)]
            /\ loc' = [loc EXCEPT
                    ![r].relevant_chunks = chunks,
                    ![r].prompt = prompt,
                    ![r].generated = result.text,
                    ![r].up = up,
                    ![r].answered = result.answered,
                    ![r].response = IF raised THEN "" ELSE response,
                    ![r].output_blocked = ~raised /\ guarded /\ answer = "GUARDRAIL_INTERVENED",
                    ![r].output_check_error = ~raised /\ answer = "error",
                    ![r].cost = IF raised \/ no_text THEN 0
                                ELSE calculate_cost(PromptTokens(prompt),
                                                    ResponseTokens(response), model_config)]
            /\ IF raised \/ no_text
               THEN /\ resp' = [resp EXCEPT ![r] = ErrorResponse(500, "Internal server error")]
                    /\ pc' = [pc EXCEPT ![r] = "done"]
               ELSE /\ resp' = resp
                    /\ pc' = [pc EXCEPT ![r] = "record"]
    /\ UNCHANGED <<now, ticks, faulty, config, table, req>>

\* handler, lines 252-304: conversation turn, metrics, evaluation data,
\* quality scores, QUERY_PROCESSED audit event
Record(r) ==
    /\ pc[r] = "record"
    /\ \E ok \in Ok("table"), o \in AuditOutcomesIf(config.governance) :
        /\ table' = store_conversation(table, loc[r].conversation_id, req[r].query,
                                       loc[r].response, now, ok)
        /\ audit' = [audit EXCEPT ![r] =
                IF config.governance
                THEN Append(@, log_audit_event("QUERY_PROCESSED", loc[r].user_id,
                                               QuerySeverity(loc[r].has_pii, TRUE), o))
                ELSE @]
    /\ calls' = [calls EXCEPT ![r] = @ \o <<"put_turn", "put_metric_data",
                                            "put_evaluation", "put_quality_metrics">>]
    /\ pc' = [pc EXCEPT ![r] = "cache_store"]
    /\ UNCHANGED <<now, ticks, faulty, config, req, loc, sent, resp>>

\* response_data, lines 307-331
ResponseData(r) ==
    [request_id |-> r,
     conversation_id |-> loc[r].conversation_id,
     response |-> loc[r].response,
     model |-> models[loc[r].model_tier].id,
     model_tier |-> loc[r].model_tier,
     complexity_score |-> loc[r].complexity_score,
     cost |-> loc[r].cost,
     has_pii |-> loc[r].has_pii,
     pii_redacted |-> loc[r].has_pii,
     sources |-> [i \in 1..Len(loc[r].relevant_chunks) |->
                    [document_id |-> loc[r].relevant_chunks[i].document_id,
                     score |-> loc[r].relevant_chunks[i].score]],
     cached |-> FALSE,
     governance |-> [guardrails_applied |-> config.guardrail_id,
                     pii_detected |-> loc[r].has_pii,
                     audit_logged |-> config.governance]]

\* handler, lines 306-335: cache the response and return it
CacheStore(r) ==
    /\ pc[r] = "cache_store"
    /\ \E ok \in Ok("table") :
        /\ table' = cache_response(table, req[r].query, ResponseData(r), now, ok)
        /\ loc' = [loc EXCEPT ![r].cache_written = ok, ![r].cache_written_at = now]
    /\ resp' = [resp EXCEPT ![r] = [status |-> 200, error |-> "", data |-> ResponseData(r)]]
    /\ calls' = [calls EXCEPT ![r] = Append(@, "put_cache_item")]
    /\ pc' = [pc EXCEPT ![r] = "done"]
    /\ UNCHANGED <<now, ticks, faulty, config, req, sent, audit>>

\* ---------------------------------------------------------- specifications
\* One request, every body, every configuration, any faulty service.
Next ==
    \E r \in {"r1"} :
        \/ Receive(r, {b \in Bodies : ValidBody(b)})
        \/ PreChecks(r)
        \/ GetHistory(r)
        \/ CacheLookup(r)
        \/ Generate(r)
        \/ Record(r)
        \/ CacheStore(r)

Spec == Init /\ [][Next]_vars

\* Two concurrent requests for the same normalised query, with the clock.
CacheTexts == {qStatus, qStatus2}

CacheBodies ==
    {[has_query |-> TRUE, query |-> q, conversation_id |-> c, stream |-> FALSE,
      user_id |-> u] : q \in CacheTexts, c \in ConversationIds, u \in Users}

InitCache ==
    /\ Init
    /\ config = [governance |-> TRUE, guardrail_id |-> FALSE]
    /\ faulty \subseteq {"table"}

NextCache ==
    \/ Tick
    \/ Receive("r1", CacheBodies)
    \/ pc["r1"] # "idle" /\ Receive("r2", CacheBodies)
    \/ \E r \in Requests :
        \/ PreChecks(r)
        \/ GetHistory(r)
        \/ CacheLookup(r)
        \/ Generate(r)
        \/ Record(r)
        \/ CacheStore(r)

SpecCache == InitCache /\ [][NextCache]_vars

\* The complexity scorer alone: every text with every history length.
JoinWords(words) ==
    [i \in 1..(2 * Len(words) - 1) |->
        IF i % 2 = 1 THEN words[(i + 1) \div 2] ELSE SP]

qLong == JoinWords(<<"why", "compare", "analyze", "advantages", "first",
                     "architecture", "security", "performance", "implementation",
                     "of", "the", "new", "service", "and", "the", "old", "one",
                     "in", "our", "region">>)
qHow == JoinWords(<<"however", "the", "disadvantages", "of", "encryption",
                    "then", "matter", "to", "us", "all">>)

ScoreTexts == {qAdv, qStd, qPii, qPii2, qStatus, qStatus2, qLong, qHow}

Turn(i) == [conversation_id |-> <<"conv", "c1">>, timestamp |-> i,
            query |-> qStd, response |-> GenText("simple")]
Histories == {[i \in 1..n |-> Turn(i)] : n \in 0..MaxHistory}

InitScore ==
    /\ now = TicksPerSecond
    /\ ticks = 0
    /\ faulty = {}
    /\ config = [governance |-> TRUE, guardrail_id |-> TRUE]
    /\ table = {}
    /\ pc = [r \in Requests |-> "idle"]
    /\ \E q \in ScoreTexts :
        req = [r \in Requests |->
                [has_query |-> TRUE, query |-> q, conversation_id |-> <<"conv", "c1">>,
                 stream |-> FALSE, user_id |-> "u1"]]
    /\ \E h \in Histories :
        loc = [r \in Requests |-> [LocInit EXCEPT !.conversation_history = h]]
    /\ calls = [r \in Requests |-> <<>>]
    /\ sent = [r \in Requests |-> SentInit]
    /\ audit = [r \in Requests |-> <<>>]
    /\ resp = [r \in Requests |-> NoResponse]

\* select_model_tier(query, conversation_history) on the inputs drawn
Score ==
    /\ pc["r1"] = "idle"
    /\ pc' = [pc EXCEPT !["r1"] = "scored"]
    /\ loc' = [loc EXCEPT
            !["r1"].complexity_score =
                analyze_query_complexity(req["r1"].query, loc["r1"].conversation_history),
            !["r1"].model_tier =
                select_model_tier(req["r1"].query, loc["r1"].conversation_history)]
    /\ UNCHANGED <<now, ticks, faulty, config, table, req, calls, sent, audit, resp>>

NextScore == Score

SpecScore == InitScore /\ [][NextScore]_vars

\* The tier selection alone: every score up to the cap.
InitTier ==
    /\ now = TicksPerSecond
    /\ ticks = 0
    /\ faulty = {}
    /\ config = [governance |-> TRUE, guardrail_id |-> TRUE]
    /\ table = {}
    /\ pc = [r \in Requests |-> "idle"]
    /\ req = [r \in Requests |->
                [has_query |-> TRUE, query |-> qStd, conversation_id |-> <<"conv", "c1">>,
                 stream |-> FALSE, user_id |-> "u1"]]
    /\ \E score \in 0..ScoreCap :
        loc = [r \in Requests |-> [LocInit EXCEPT !.complexity_score = score]]
    /\ calls = [r \in Requests |-> <<>>]
    /\ sent = [r \in Requests |-> SentInit]
    /\ audit = [r \in Requests |-> <<>>]
    /\ resp = [r \in Requests |-> NoResponse]

SelectTier ==
    /\ pc["r1"] = "idle"
    /\ pc' = [pc EXCEPT !["r1"] = "tiered"]
    /\ loc' = [loc EXCEPT !["r1"].model_tier = TierOfScore(loc["r1"].complexity_score)]
    /\ UNCHANGED <<now, ticks, faulty, config, table, req, calls, sent, audit, resp>>

NextTier == SelectTier

SpecTier == InitTier /\ [][NextTier]_vars

\* ------------------------------------------------------ quality evaluator
\* quality_evaluator.py.  A score is an integer number of 1/60000, so that
\* the means over at most max_results chunks and the weighted sums are exact.
One == 60000
Tenth == One \div 10
max_results == 5
HighQuality == 80         \* chunk score above 0.8, in 1/100
HighQualityChunks == 3

\* A response as the evaluator measures it: len(response.split()), the \w+
\* words, the non-empty sentences and the words in them, the distinct words,
\* and the phrases the dimensions look for.
ShortAnswer ==
    [word_count |-> 8, keywords |-> {"security", "performance", "good"},
     sentences |-> 1, sentence_words |-> 8, unique_words |-> 8,
     has_transitions |-> FALSE, well_formed |-> TRUE,
     addresses |-> {}, has_examples |-> FALSE, admits_limits |-> FALSE,
     has_grounded_phrases |-> FALSE]
FullAnswer ==
    [word_count |-> 60, keywords |-> {"compare", "security", "performance",
                                      "architecture", "because"},
     sentences |-> 4, sentence_words |-> 60, unique_words |-> 40,
     has_transitions |-> TRUE, well_formed |-> TRUE,
     addresses |-> {"why", "what"}, has_examples |-> TRUE, admits_limits |-> TRUE,
     has_grounded_phrases |-> TRUE]
RamblingAnswer ==
    [word_count |-> 600, keywords |-> {"service", "region"},
     sentences |-> 10, sentence_words |-> 600, unique_words |-> 150,
     has_transitions |-> FALSE, well_formed |-> FALSE,
     addresses |-> {"how"}, has_examples |-> TRUE, admits_limits |-> FALSE,
     has_grounded_phrases |-> FALSE]
EmptyAnswer ==
    [word_count |-> 0, keywords |-> {},
     sentences |-> 0, sentence_words |-> 0, unique_words |-> 0,
     has_transitions |-> FALSE, well_formed |-> FALSE,
     addresses |-> {}, has_examples |-> FALSE, admits_limits |-> FALSE,
     has_grounded_phrases |-> FALSE]
Answers == {ShortAnswer, FullAnswer, RamblingAnswer, EmptyAnswer}

\* A query as the evaluator measures it: its words longer than 3 letters
\* and the question words it contains.
Questions ==
    {[keywords |-> {"compare", "security", "performance"}, question_words |-> {"why"}],
     [keywords |-> {"status", "report"}, question_words |-> {}],
     [keywords |-> {}, question_words |-> {"how"}]}

\* The hit score is the sum of the boosted vector score (0.7 x knn_score,
\* cosinesimil) and the boosted keyword score (0.3 x multi_match): it is
\* not normalised, app.py lines 495-527 and 558.  In 1/100.
HitScores == {50, 90, 140}

\* a chunk as the evaluator measures it: its score and its words longer than 4
ChunkOf(score) == [score |-> score, keywords |-> {"security", "architecture"}]

ChunkLists ==
    UNION {[1..n -> {ChunkOf(x) : x \in HitScores}] : n \in 0..max_results}

RECURSIVE SumScores(_)
SumScores(chunks) ==
    IF chunks = <<>> THEN 0 ELSE Head(chunks).score + SumScores(Tail(chunks))

\* sum(c.get('score', 0) for c in chunks) / len(chunks)
AvgChunkScore(chunks) == (SumScores(chunks) * (One \div 100)) \div Len(chunks)

Clamp(x) == IF x < 0 THEN 0 ELSE IF x > One THEN One ELSE x

calculate_relevance_score(query, response, chunks) ==
    IF query.keywords = {} THEN One \div 2
    ELSE LET overlap == (Cardinality(query.keywords \cap response.keywords) * One)
                            \div Cardinality(query.keywords)
             score == IF chunks # <<>>
                      THEN (overlap * 6 + AvgChunkScore(chunks) * 4) \div 10
                      ELSE overlap
         IN  Clamp(score)

calculate_coherence_score(response) ==
    IF response.sentences = 0 THEN 0
    ELSE LET n == response.sentences
             w == response.sentence_words
             length_part ==
                 IF 10 * n <= w /\ w <= 25 * n THEN 3 * Tenth
                 ELSE IF 5 * n <= w /\ w <= 35 * n THEN (15 * Tenth) \div 10
                 ELSE 0
             transition_part == IF response.has_transitions THEN 2 * Tenth ELSE 0
             unique_part ==
                 IF response.word_count > 0
                 THEN IF 2 * response.unique_words > response.word_count
                      THEN 3 * Tenth
                      ELSE IF 10 * response.unique_words > 3 * response.word_count
                           THEN (15 * Tenth) \div 10
                           ELSE 0
                 ELSE 0
             form_part == IF response.well_formed THEN 2 * Tenth ELSE 0
         IN  Min(length_part + transition_part + unique_part + form_part, One)

calculate_completeness_score(query, response) ==
    LET length_part ==
            IF response.word_count > 50 THEN 4 * Tenth
            ELSE IF response.word_count > 20 THEN 3 * Tenth
            ELSE IF response.word_count > 10 THEN 2 * Tenth
            ELSE Tenth
        answer_part ==
            IF query.question_words \cap response.addresses # {} THEN 3 * Tenth ELSE 0
        example_part == IF response.has_examples THEN 2 * Tenth ELSE 0
        limits_part == IF response.admits_limits THEN Tenth ELSE 0
    IN  Min(length_part + answer_part + example_part + limits_part, One)

\* lines 208-226: the mean is capped only when the bonus applies
calculate_accuracy_score(chunks) ==
    IF chunks = <<>> THEN 0
    ELSE LET avg_score == AvgChunkScore(chunks)
             high_quality_chunks ==
                 Cardinality({i \in 1..Len(chunks) : chunks[i].score > HighQuality})
         IN  IF high_quality_chunks >= HighQualityChunks
             THEN Min(avg_score + Tenth, One)
             ELSE avg_score

calculate_conciseness_score(response) ==
    LET word_count == response.word_count
    IN  IF 50 <= word_count /\ word_count <= 200 THEN One
        ELSE IF 30 <= word_count /\ word_count < 50 THEN 8 * Tenth
        ELSE IF 200 < word_count /\ word_count <= 300 THEN 8 * Tenth
        ELSE IF 20 <= word_count /\ word_count < 30 THEN 6 * Tenth
        ELSE IF 300 < word_count /\ word_count <= 500 THEN 6 * Tenth
        ELSE IF word_count < 20 THEN 3 * Tenth
        ELSE 4 * Tenth

LongWords(response) == response.keywords \ {"good"}

calculate_groundedness_score(response, chunks) ==
    IF chunks = <<>> THEN 0
    ELSE LET chunk_keywords == UNION {chunks[i].keywords : i \in 1..Len(chunks)}
             response_keywords == LongWords(response)
         IN  IF response_keywords = {} THEN 0
             ELSE LET overlap == (Cardinality(chunk_keywords \cap response_keywords) * One)
                                     \div Cardinality(response_keywords)
                  IN  IF response.has_grounded_phrases
                      THEN Min(overlap + Tenth, One)
                      ELSE overlap

\* lines 288-300: the weights are hundredths
calculate_overall_score(scores) ==
    (scores.relevance * 25 + scores.coherence * 15 + scores.completeness * 20
        + scores.accuracy * 20 + scores.conciseness * 10 + scores.groundedness * 10)
    \div 100

NoScores == [relevance |-> 0, coherence |-> 0, completeness |-> 0, accuracy |-> 0,
             conciseness |-> 0, groundedness |-> 0, overall |-> 0]

evaluate_response_quality(query, response, relevant_chunks) ==
    LET scores ==
            [relevance |-> calculate_relevance_score(query, response, relevant_chunks),
             coherence |-> calculate_coherence_score(response),
             completeness |-> calculate_completeness_score(query, response),
             accuracy |-> calculate_accuracy_score(relevant_chunks),
             conciseness |-> calculate_conciseness_score(response),
             groundedness |-> calculate_groundedness_score(response, relevant_chunks),
             overall |-> 0]
    IN  [scores EXCEPT !.overall = calculate_overall_score(scores)]

\* The evaluator alone: every question, answer and chunk list.
InitQuality ==
    /\ now = TicksPerSecond
    /\ ticks = 0
    /\ faulty = {}
    /\ config = [governance |-> TRUE, guardrail_id |-> TRUE]
    /\ table = {}
    /\ pc = [r \in Requests |-> "idle"]
    /\ \E q \in Questions : req = [r \in Requests |-> q]
    /\ \E a \in Answers : \E chunks \in ChunkLists :
        loc = [r \in Requests |->
                [response |-> a, relevant_chunks |-> chunks, quality_scores |-> NoScores]]
    /\ calls = [r \in Requests |-> <<>>]
    /\ sent = [r \in Requests |-> SentInit]
    /\ audit = [r \in Requests |-> <<>>]
    /\ resp = [r \in Requests |-> NoResponse]

Evaluate ==
    /\ pc["r1"] = "idle"
    /\ pc' = [pc EXCEPT !["r1"] = "evaluated"]
    /\ loc' = [loc EXCEPT !["r1"].quality_scores =
                evaluate_response_quality(req["r1"], loc["r1"].response,
                                          loc["r1"].relevant_chunks)]
    /\ UNCHANGED <<now, ticks, faulty, config, table, req, calls, sent, audit, resp>>

NextQuality == Evaluate

SpecQuality == InitQuality /\ [][NextQuality]_vars

\* ------------------------------------------ customer support assistant
\* src/01_1.5_customer_support_ai_assistant: a text is a sequence of
\* characters, so that the patterns of the guardrail are matched as written.
UpperLetters ==
    <<"A", "B", "C", "D", "E", "F", "G", "H", "I", "J", "K", "L", "M", "N", "O", "P", "Q", "R",
    "S", "T", "U", "V", "W", "X", "Y", "Z">>
LowerLetters ==
    <<"a", "b", "c", "d", "e", "f", "g", "h", "i", "j", "k", "l", "m", "n", "o", "p", "q", "r",
    "s", "t", "u", "v", "w", "x", "y", "z">>
Letters == {UpperLetters[i] : i \in 1..26} \cup {LowerLetters[i] : i \in 1..26}
Digits == {"0", "1", "2", "3", "4", "5", "6", "7", "8", "9"}
UpperOrDigit == {UpperLetters[i] : i \in 1..26} \cup Digits
WordChars == Letters \cup Digits \cup {"_"}
SpaceChars == {" ", "\n", "\t"}

LowerChar(c) ==
    IF \E i \in 1..26 : UpperLetters[i] = c
    THEN LowerLetters[CHOOSE i \in 1..26 : UpperLetters[i] = c]
    ELSE c

\* text.lower()
LowerText(text) == [i \in 1..Len(text) |-> LowerChar(text[i])]

CharAt(text, i) == IF i \in 1..Len(text) THEN text[i] ELSE ""

\* sub in text
Find(text, sub) ==
    \E i \in 1..Len(text) :
        /\ i + Len(sub) - 1 <= Len(text)
        /\ \A j \in 1..Len(sub) : text[i + j - 1] = sub[j]

\* the literal lit at position i: the position after it, or 0
Lit(text, i, lit) ==
    IF /\ i >= 1
       /\ i + Len(lit) - 1 <= Len(text)
       /\ \A j \in 1..Len(lit) : text[i + j - 1] = lit[j]
    THEN i + Len(lit)
    ELSE 0

\* \s* at position i
RECURSIVE SkipSpaces(_, _)
SkipSpaces(text, i) ==
    IF i = 0 THEN 0
    ELSE IF CharAt(text, i) \in SpaceChars THEN SkipSpaces(text, i + 1)
    ELSE i

\* \s+ at position i
SomeSpaces(text, i) ==
    IF i # 0 /\ CharAt(text, i) \in SpaceChars THEN SkipSpaces(text, i) ELSE 0

\* [class]{n} at position i
Run(text, i, class, n) ==
    IF i >= 1 /\ \A k \in 0..(n - 1) : CharAt(text, i + k) \in class
    THEN i + n
    ELSE 0

\* \b at position i
WordBoundary(text, i) ==
    (CharAt(text, i - 1) \in WordChars) # (CharAt(text, i) \in WordChars)

AccessKeyLength == 16
SecretKeyLength == 40
ApiKeyLength == 20

\* r'AKIA[0-9A-Z]{16}' with lower-case letters accepted as well
MatchesAccessKeyAnyCase(text) ==
    \E i \in 1..Len(text) :
        Run(text, Lit(text, i, <<"A", "K", "I", "A">>), Letters \cup Digits, AccessKeyLength) # 0

\* r'AKIA[0-9A-Z]{16}'
MatchesAccessKey(text) ==
    \E i \in 1..Len(text) :
        Run(text, Lit(text, i, <<"A", "K", "I", "A">>), UpperOrDigit, AccessKeyLength) # 0

\* r'[A-Za-z0-9/+=]{40}'
MatchesSecretKey(text) ==
    \E i \in 1..Len(text) :
        Run(text, i, Letters \cup Digits \cup {"/", "+", "="}, SecretKeyLength) # 0

\* r'\b(password|passwd|pwd)\s*[:=]\s*\S+', ignoring case
MatchesPassword(text) ==
    LET t == LowerText(text)
    IN  \E i \in 1..Len(t) :
        \E w \in {<<"p", "a", "s", "s", "w", "o", "r", "d">>, <<"p", "a", "s", "s", "w", "d">>, <<"p", "w", "d">>} :
            LET a == Lit(t, i, w)
                b == SkipSpaces(t, a)
                c == Run(t, b, {":", "="}, 1)
                d == SkipSpaces(t, c)
            IN  /\ WordBoundary(t, i)
                /\ d # 0
                /\ CharAt(t, d) # ""
                /\ CharAt(t, d) \notin SpaceChars

\* r'-----BEGIN\s+(?:RSA\s+)?PRIVATE\s+KEY-----'
MatchesPrivateKey(text) ==
    \E i \in 1..Len(text) :
        LET a == SomeSpaces(text, Lit(text, i, <<"-", "-", "-", "-", "-", "B", "E", "G", "I", "N">>))
            rsa == SomeSpaces(text, Lit(text, a, <<"R", "S", "A">>))
            b == IF rsa # 0 THEN rsa ELSE a
            c == SomeSpaces(text, Lit(text, b, <<"P", "R", "I", "V", "A", "T", "E">>))
        IN  Lit(text, c, <<"K", "E", "Y", "-", "-", "-", "-", "-">>) # 0

\* r'\b(api[_-]?key|apikey)\s*[:=]\s*["\']?[A-Za-z0-9_\-]{20,}', ignoring case
MatchesApiKey(text) ==
    LET t == LowerText(text)
    IN  \E i \in 1..Len(t) :
        \E w \in {<<"a", "p", "i", "_", "k", "e", "y">>, <<"a", "p", "i", "-", "k", "e", "y">>, <<"a", "p", "i", "k", "e", "y">>} :
            LET a == Lit(t, i, w)
                b == SkipSpaces(t, a)
                c == Run(t, b, {":", "="}, 1)
                d == SkipSpaces(t, c)
                e == IF d # 0 /\ CharAt(t, d) \in {"\"", "'"} THEN d + 1 ELSE d
            IN  /\ WordBoundary(t, i)
                /\ Run(t, e, Letters \cup Digits \cup {"_", "-"}, ApiKeyLength) # 0

\* _load_sensitive_patterns: the patterns in the order they are tried
sensitive_patterns ==
    <<[name |-> <<"A", "W", "S", " ", "A", "c", "c", "e", "s", "s", " ", "K", "e", "y">>,
       description |-> <<"A", "W", "S", " ", "A", "c", "c", "e", "s", "s", " ", "K", "e", "y", " ", "I", "D">>],
      [name |-> <<"A", "W", "S", " ", "S", "e", "c", "r", "e", "t", " ", "K", "e", "y">>,
       description |-> <<"P", "o", "t", "e", "n", "t", "i", "a", "l", " ", "A", "W", "S", " ", "S", "e", "c", "r", "e", "t", " ", "A", "c", "c", "e", "s", "s", " ", "K", "e", "y">>],
      [name |-> <<"P", "a", "s", "s", "w", "o", "r", "d">>,
       description |-> <<"P", "a", "s", "s", "w", "o", "r", "d", " ", "i", "n", " ", "p", "l", "a", "i", "n", " ", "t", "e", "x", "t">>],
      [name |-> <<"P", "r", "i", "v", "a", "t", "e", " ", "K", "e", "y">>,
       description |-> <<"P", "r", "i", "v", "a", "t", "e", " ", "k", "e", "y", " ", "m", "a", "t", "e", "r", "i", "a", "l">>],
      [name |-> <<"A", "P", "I", " ", "K", "e", "y">>,
       description |-> <<"G", "e", "n", "e", "r", "i", "c", " ", "A", "P", "I", " ", "k", "e", "y">>]>>

PatternMatches(k, text) ==
    CASE k = 1 -> MatchesAccessKey(text)
      [] k = 2 -> MatchesSecretKey(text)
      [] k = 3 -> MatchesPassword(text)
      [] k = 4 -> MatchesPrivateKey(text)
      [] k = 5 -> MatchesApiKey(text)
      [] OTHER -> FALSE

\* _load_blocked_topics
blocked_topics ==
    <<[topic |-> <<"f", "u", "t", "u", "r", "e", "_", "f", "e", "a", "t", "u", "r", "e", "s">>, response |-> "future_features",
       keywords |-> {<<"r", "o", "a", "d", "m", "a", "p">>,
                     <<"u", "p", "c", "o", "m", "i", "n", "g">>,
                     <<"w", "i", "l", "l", " ", "b", "e", " ", "r", "e", "l", "e", "a", "s", "e", "d">>,
                     <<"f", "u", "t", "u", "r", "e", " ", "r", "e", "l", "e", "a", "s", "e">>,
                     <<"p", "l", "a", "n", "n", "i", "n", "g", " ", "t", "o", " ", "l", "a", "u", "n", "c", "h">>,
                     <<"n", "e", "x", "t", " ", "v", "e", "r", "s", "i", "o", "n">>,
                     <<"s", "o", "o", "n">>,
                     <<"f", "u", "t", "u", "r", "e", " ", "p", "l", "a", "n", "s">>}],
      [topic |-> <<"a", "c", "c", "o", "u", "n", "t", "_", "c", "r", "e", "d", "e", "n", "t", "i", "a", "l", "s">>, response |-> "account_credentials",
       keywords |-> {<<"a", "c", "c", "e", "s", "s", " ", "k", "e", "y">>,
                     <<"s", "e", "c", "r", "e", "t", " ", "k", "e", "y">>,
                     <<"p", "a", "s", "s", "w", "o", "r", "d">>,
                     <<"c", "r", "e", "d", "e", "n", "t", "i", "a", "l", "s">>,
                     <<"l", "o", "g", "i", "n", " ", "i", "n", "f", "o">>,
                     <<"a", "u", "t", "h", "e", "n", "t", "i", "c", "a", "t", "i", "o", "n", " ", "t", "o", "k", "e", "n">>}],
      [topic |-> <<"d", "i", "r", "e", "c", "t", "_", "a", "c", "c", "o", "u", "n", "t", "_", "m", "o", "d", "i", "f", "i", "c", "a", "t", "i", "o", "n">>, response |-> "direct_account_modification",
       keywords |-> {<<"d", "e", "l", "e", "t", "e", " ", "m", "y">>,
                     <<"m", "o", "d", "i", "f", "y", " ", "m", "y", " ", "a", "c", "c", "o", "u", "n", "t">>,
                     <<"c", "h", "a", "n", "g", "e", " ", "m", "y", " ", "b", "i", "l", "l", "i", "n", "g">>,
                     <<"c", "a", "n", "c", "e", "l", " ", "m", "y", " ", "s", "u", "b", "s", "c", "r", "i", "p", "t", "i", "o", "n">>,
                     <<"c", "l", "o", "s", "e", " ", "m", "y", " ", "a", "c", "c", "o", "u", "n", "t">>}]>>

\* the issues of the pattern entries from k on, in order
RECURSIVE PatternIssues(_, _, _)
PatternIssues(text, k, prefix) ==
    IF k > Len(sensitive_patterns) THEN <<>>
    ELSE (IF PatternMatches(k, text)
          THEN <<prefix \o sensitive_patterns[k].name>>
          ELSE <<>>)
         \o PatternIssues(text, k + 1, prefix)

\* "Detected <name>: <description>"
DetectedIssue(k) ==
    <<"D", "e", "t", "e", "c", "t", "e", "d", " ">> \o sensitive_patterns[k].name \o <<":", " ">> \o sensitive_patterns[k].description

RECURSIVE InputPatternIssues(_, _)
InputPatternIssues(text, k) ==
    IF k > Len(sensitive_patterns) THEN <<>>
    ELSE (IF PatternMatches(k, text) THEN <<DetectedIssue(k)>> ELSE <<>>)
         \o InputPatternIssues(text, k + 1)

RECURSIVE TopicIssues(_, _)
TopicIssues(text_lower, k) ==
    IF k > Len(blocked_topics) THEN <<>>
    ELSE (IF \E keyword \in blocked_topics[k].keywords : Find(text_lower, keyword)
          THEN <<<<"B", "l", "o", "c", "k", "e", "d", " ", "t", "o", "p", "i", "c", " ", "d", "e", "t", "e", "c", "t", "e", "d", ":", " ">> \o blocked_topics[k].topic>>
          ELSE <<>>)
         \o TopicIssues(text_lower, k + 1)

\* validate_input, lines 144-175
validate_input(text) ==
    LET issues == InputPatternIssues(text, 1) \o TopicIssues(LowerText(text), 1)
    IN  [is_safe |-> Len(issues) = 0, issues |-> issues]

future_indicators ==
    {<<"w", "e", " ", "w", "i", "l", "l", " ", "l", "a", "u", "n", "c", "h">>,
     <<"w", "e", " ", "w", "i", "l", "l", " ", "r", "e", "l", "e", "a", "s", "e">>,
     <<"w", "e", " ", "w", "i", "l", "l", " ", "a", "d", "d">>,
     <<"c", "o", "m", "i", "n", "g", " ", "s", "o", "o", "n">>,
     <<"i", "n", " ", "t", "h", "e", " ", "n", "e", "x", "t", " ", "v", "e", "r", "s", "i", "o", "n">>,
     <<"i", "n", " ", "t", "h", "e", " ", "n", "e", "x", "t", " ", "r", "e", "l", "e", "a", "s", "e">>,
     <<"i", "n", " ", "t", "h", "e", " ", "u", "p", "c", "o", "m", "i", "n", "g", " ", "v", "e", "r", "s", "i", "o", "n">>,
     <<"i", "n", " ", "t", "h", "e", " ", "u", "p", "c", "o", "m", "i", "n", "g", " ", "r", "e", "l", "e", "a", "s", "e">>,
     <<"a", "w", "s", " ", "i", "s", " ", "p", "l", "a", "n", "n", "i", "n", "g">>,
     <<"a", "w", "s", " ", "w", "i", "l", "l", " ", "b", "e", " ", "p", "l", "a", "n", "n", "i", "n", "g">>,
     <<"a", "m", "a", "z", "o", "n", " ", "i", "s", " ", "p", "l", "a", "n", "n", "i", "n", "g">>,
     <<"a", "m", "a", "z", "o", "n", " ", "w", "i", "l", "l", " ", "b", "e", " ", "p", "l", "a", "n", "n", "i", "n", "g">>}

Rivals == {<<"a", "z", "u", "r", "e">>, <<"g", "c", "p">>, <<"g", "o", "o", "g", "l", "e", " ", "c", "l", "o", "u", "d">>}
negative_words ==
    {<<"b", "a", "d">>,
     <<"w", "o", "r", "s", "e">>,
     <<"i", "n", "f", "e", "r", "i", "o", "r">>,
     <<"p", "o", "o", "r">>,
     <<"s", "h", "o", "u", "l", "d", " ", "n", "o", "t">>,
     <<"s", "h", "o", "u", "l", "d", "n", "'", "t">>,
     <<"a", "v", "o", "i", "d">>,
     <<"p", "r", "o", "b", "l", "e", "m">>,
     <<"i", "s", "s", "u", "e">>,
     <<"f", "l", "a", "w">>}

\* r'(azure|gcp|google cloud).*(bad|...)': a rival, then one of the words
\* later on the same line
Disparages(t) ==
    \E i \in 1..Len(t) : \E rival \in Rivals :
        LET a == Lit(t, i, rival)
        IN  /\ a # 0
            /\ \E j \in a..Len(t) : \E word \in negative_words :
                /\ Lit(t, j, word) # 0
                /\ \A k \in a..(j - 1) : t[k] # "\n"

\* validate_output, lines 177-226
validate_output(text) ==
    LET t == LowerText(text)
        issues ==
            PatternIssues(text, 1, <<"O", "u", "t", "p", "u", "t", " ", "c", "o", "n", "t", "a", "i", "n", "s", " ">>)
            \o (IF \E indicator \in future_indicators : Find(t, indicator)
                THEN <<<<"O", "u", "t", "p", "u", "t", " ", "c", "o", "n", "t", "a", "i", "n", "s", " ", "f", "u", "t", "u", "r", "e", " ", "c", "o", "m", "m", "i", "t", "m", "e", "n", "t">>>> ELSE <<>>)
            \o (IF Disparages(t)
                THEN <<<<"O", "u", "t", "p", "u", "t", " ", "m", "a", "y", " ", "c", "o", "n", "t", "a", "i", "n", " ", "c", "o", "m", "p", "e", "t", "i", "t", "o", "r", " ", "d", "i", "s", "p", "a", "r", "a", "g", "e", "m", "e", "n", "t">>>> ELSE <<>>)
    IN  [is_safe |-> Len(issues) = 0, issues |-> issues]

\* _generate_safe_response, lines 265-301: which of the fixed messages
RECURSIVE TopicResponse(_, _)
TopicResponse(input_issues, k) ==
    IF k > Len(blocked_topics) THEN "none"
    ELSE IF \E n \in 1..Len(input_issues) :
                Find(LowerText(input_issues[n]), blocked_topics[k].topic)
         THEN blocked_topics[k].response
         ELSE TopicResponse(input_issues, k + 1)

generate_safe_response(input_issues, output_issues) ==
    IF /\ Len(input_issues) > 0
       /\ \E n \in 1..Len(input_issues) :
            \/ Find(LowerText(input_issues[n]), <<"c", "r", "e", "d", "e", "n", "t", "i", "a", "l", "s">>)
            \/ Find(LowerText(input_issues[n]), <<"k", "e", "y">>)
    THEN "credentials"
    ELSE IF Len(input_issues) > 0 /\ TopicResponse(input_issues, 1) # "none"
    THEN TopicResponse(input_issues, 1)
    ELSE IF Len(output_issues) > 0 THEN "refine"
    ELSE "rephrase"

\* _load_intent_patterns, in the order of the dictionary
intent_patterns ==
    <<[intent |-> "ec2_troubleshooting", template_id |-> "ec2_troubleshooting", escalation_required |-> FALSE,
       keywords |-> <<<<"e", "c", "2">>,
                     <<"i", "n", "s", "t", "a", "n", "c", "e">>,
                     <<"v", "i", "r", "t", "u", "a", "l", " ", "m", "a", "c", "h", "i", "n", "e">>,
                     <<"v", "m">>,
                     <<"c", "o", "m", "p", "u", "t", "e">>,
                     <<"i", "n", "s", "t", "a", "n", "c", "e", " ", "n", "o", "t", " ", "r", "e", "s", "p", "o", "n", "d", "i", "n", "g">>,
                     <<"c", "a", "n", "n", "o", "t", " ", "c", "o", "n", "n", "e", "c", "t">>,
                     <<"s", "s", "h">>,
                     <<"r", "d", "p">>,
                     <<"i", "n", "s", "t", "a", "n", "c", "e", " ", "s", "t", "a", "t", "u", "s">>,
                     <<"i", "n", "s", "t", "a", "n", "c", "e", " ", "s", "t", "o", "p", "p", "e", "d">>>>],
      [intent |-> "s3_troubleshooting", template_id |-> "s3_troubleshooting", escalation_required |-> FALSE,
       keywords |-> <<<<"s", "3">>,
                     <<"b", "u", "c", "k", "e", "t">>,
                     <<"o", "b", "j", "e", "c", "t", " ", "s", "t", "o", "r", "a", "g", "e">>,
                     <<"s", "t", "o", "r", "a", "g", "e">>,
                     <<"f", "i", "l", "e", " ", "u", "p", "l", "o", "a", "d">>,
                     <<"a", "c", "c", "e", "s", "s", " ", "d", "e", "n", "i", "e", "d">>,
                     <<"4", "0", "3">>,
                     <<"b", "u", "c", "k", "e", "t", " ", "p", "o", "l", "i", "c", "y">>,
                     <<"c", "o", "r", "s">>>>],
      [intent |-> "lambda_troubleshooting", template_id |-> "lambda_troubleshooting", escalation_required |-> FALSE,
       keywords |-> <<<<"l", "a", "m", "b", "d", "a">>,
                     <<"f", "u", "n", "c", "t", "i", "o", "n">>,
                     <<"s", "e", "r", "v", "e", "r", "l", "e", "s", "s">>,
                     <<"t", "i", "m", "e", "o", "u", "t">>,
                     <<"c", "o", "l", "d", " ", "s", "t", "a", "r", "t">>,
                     <<"m", "e", "m", "o", "r", "y", " ", "e", "x", "c", "e", "e", "d", "e", "d">>,
                     <<"e", "x", "e", "c", "u", "t", "i", "o", "n", " ", "e", "r", "r", "o", "r">>,
                     <<"l", "a", "m", "b", "d", "a", " ", "e", "r", "r", "o", "r">>>>],
      [intent |-> "rds_database", template_id |-> "general_support", escalation_required |-> FALSE,
       keywords |-> <<<<"r", "d", "s">>,
                     <<"d", "a", "t", "a", "b", "a", "s", "e">>,
                     <<"m", "y", "s", "q", "l">>,
                     <<"p", "o", "s", "t", "g", "r", "e", "s", "q", "l">>,
                     <<"a", "u", "r", "o", "r", "a">>,
                     <<"d", "b", " ", "i", "n", "s", "t", "a", "n", "c", "e">>,
                     <<"c", "o", "n", "n", "e", "c", "t", "i", "o", "n", " ", "s", "t", "r", "i", "n", "g">>,
                     <<"d", "a", "t", "a", "b", "a", "s", "e", " ", "c", "o", "n", "n", "e", "c", "t", "i", "o", "n">>>>],
      [intent |-> "networking", template_id |-> "general_support", escalation_required |-> FALSE,
       keywords |-> <<<<"v", "p", "c">>,
                     <<"s", "u", "b", "n", "e", "t">>,
                     <<"s", "e", "c", "u", "r", "i", "t", "y", " ", "g", "r", "o", "u", "p">>,
                     <<"n", "e", "t", "w", "o", "r", "k", " ", "a", "c", "l">>,
                     <<"r", "o", "u", "t", "e", " ", "t", "a", "b", "l", "e">>,
                     <<"i", "n", "t", "e", "r", "n", "e", "t", " ", "g", "a", "t", "e", "w", "a", "y">>,
                     <<"n", "a", "t", " ", "g", "a", "t", "e", "w", "a", "y">>,
                     <<"n", "e", "t", "w", "o", "r", "k">>,
                     <<"c", "o", "n", "n", "e", "c", "t", "i", "v", "i", "t", "y">>>>],
      [intent |-> "iam_security", template_id |-> "general_support", escalation_required |-> FALSE,
       keywords |-> <<<<"i", "a", "m">>,
                     <<"p", "e", "r", "m", "i", "s", "s", "i", "o", "n">>,
                     <<"a", "c", "c", "e", "s", "s", " ", "d", "e", "n", "i", "e", "d">>,
                     <<"p", "o", "l", "i", "c", "y">>,
                     <<"r", "o", "l", "e">>,
                     <<"u", "s", "e", "r">>,
                     <<"a", "u", "t", "h", "e", "n", "t", "i", "c", "a", "t", "i", "o", "n">>,
                     <<"a", "u", "t", "h", "o", "r", "i", "z", "a", "t", "i", "o", "n">>,
                     <<"s", "e", "c", "u", "r", "i", "t", "y">>>>],
      [intent |-> "billing_cost", template_id |-> "general_support", escalation_required |-> TRUE,
       keywords |-> <<<<"b", "i", "l", "l", "i", "n", "g">>,
                     <<"c", "o", "s", "t">>,
                     <<"c", "h", "a", "r", "g", "e">>,
                     <<"i", "n", "v", "o", "i", "c", "e">>,
                     <<"p", "r", "i", "c", "i", "n", "g">>,
                     <<"c", "o", "s", "t", " ", "e", "x", "p", "l", "o", "r", "e", "r">>,
                     <<"b", "u", "d", "g", "e", "t">>,
                     <<"f", "r", "e", "e", " ", "t", "i", "e", "r">>>>],
      [intent |-> "account_management", template_id |-> "general_support", escalation_required |-> TRUE,
       keywords |-> <<<<"a", "c", "c", "o", "u", "n", "t">>,
                     <<"o", "r", "g", "a", "n", "i", "z", "a", "t", "i", "o", "n">>,
                     <<"c", "o", "n", "s", "o", "l", "i", "d", "a", "t", "e", "d", " ", "b", "i", "l", "l", "i", "n", "g">>,
                     <<"s", "e", "r", "v", "i", "c", "e", " ", "l", "i", "m", "i", "t">>,
                     <<"q", "u", "o", "t", "a">>,
                     <<"s", "u", "p", "p", "o", "r", "t", " ", "p", "l", "a", "n">>>>]>>

\* A confidence is an integer number of 1/23760 (23760 = 30 * the least
\* common multiple of the lengths of the keyword lists).
Confidence1 == 23760
confidence_threshold == (7 * Confidence1) \div 10
clarification_threshold == (5 * Confidence1) \div 10
MaxBoost == (3 * Confidence1) \div 10

\* the weight of one keyword, in tenths: query 1.0, entity 0.7, key phrase 0.5
KeywordWeight(keyword, query_lower, entity_texts, phrase_texts) ==
    IF Find(query_lower, keyword) THEN 10
    ELSE IF \E entity \in entity_texts : Find(entity, keyword) THEN 7
    ELSE IF \E phrase \in phrase_texts : Find(phrase, keyword) THEN 5
    ELSE 0

RECURSIVE SumWeights(_, _, _, _, _)
SumWeights(keywords, k, query_lower, entity_texts, phrase_texts) ==
    IF k > Len(keywords) THEN 0
    ELSE KeywordWeight(keywords[k], query_lower, entity_texts, phrase_texts)
         + SumWeights(keywords, k + 1, query_lower, entity_texts, phrase_texts)

KeywordCount(keywords, query_lower, entity_texts, phrase_texts) ==
    Cardinality({k \in 1..Len(keywords) :
        KeywordWeight(keywords[k], query_lower, entity_texts, phrase_texts) > 0})

\* _calculate_intent_scores: the score of intent n, or 0 when no keyword matched
IntentScore(n, query, entity_texts, phrase_texts) ==
    LET keywords == intent_patterns[n].keywords
        query_lower == LowerText(query)
        score == SumWeights(keywords, 1, query_lower, entity_texts, phrase_texts)
        keyword_count == KeywordCount(keywords, query_lower, entity_texts, phrase_texts)
        normalized_score ==
            Min((score * (Confidence1 \div 10)) \div Len(keywords), Confidence1)
        boost == Min((keyword_count * Confidence1) \div 3, MaxBoost)
    IN  IF keyword_count > 0 THEN Min(normalized_score + boost, Confidence1) ELSE 0

\* detect_intent, lines 117-186: max() keeps the first of the best intents
detect_intent(query, entity_texts, phrase_texts) ==
    LET scored == {n \in 1..Len(intent_patterns) :
                      IntentScore(n, query, entity_texts, phrase_texts) > 0}
    IN  IF scored = {}
        THEN [intent |-> "general_support",
              confidence |-> Confidence1 \div 2,
              is_confident |-> FALSE,
              needs_clarification |-> FALSE,
              template_id |-> "general_support",
              escalation_required |-> FALSE]
        ELSE LET top == CHOOSE n \in scored :
                     \A m \in scored :
                        \/ IntentScore(n, query, entity_texts, phrase_texts)
                             > IntentScore(m, query, entity_texts, phrase_texts)
                        \/ /\ IntentScore(n, query, entity_texts, phrase_texts)
                                = IntentScore(m, query, entity_texts, phrase_texts)
                           /\ n <= m
                 confidence == IntentScore(top, query, entity_texts, phrase_texts)
             IN  [intent |-> intent_patterns[top].intent,
                  confidence |-> confidence,
                  is_confident |-> confidence >= confidence_threshold,
                  needs_clarification |-> confidence < clarification_threshold,
                  template_id |-> intent_patterns[top].template_id,
                  escalation_required |-> intent_patterns[top].escalation_required]

\* the queries of the users
sqKey ==
    <<"e", "c", "2", " ", "s", "s", "h", " ", "i", "n", "s", "t", "a", "n", "c", "e", " ", "A",
    "K", "I", "A", "I", "O", "S", "F", "O", "D", "N", "N", "7", "E", "X", "A", "M", "P", "L",
    "E">>
sqKeyLower ==
    <<"e", "c", "2", " ", "s", "s", "h", " ", "i", "n", "s", "t", "a", "n", "c", "e", " ", "A",
    "K", "I", "A", "i", "o", "s", "f", "o", "d", "n", "n", "7", "e", "x", "a", "m", "p", "l",
    "e">>
sqPlain ==
    <<"e", "c", "2", " ", "s", "s", "h", " ", "i", "n", "s", "t", "a", "n", "c", "e", " ", "d",
    "o", "w", "n">>
sqPassword ==
    <<"p", "a", "s", "s", "w", "o", "r", "d", "=", "S", "e", "c", "r", "e", "t", "1", "2", "3",
    " ", "h", "e", "l", "p", " ", "m", "e">>
sqPwd ==
    <<"e", "c", "2", " ", "s", "s", "h", " ", "p", "w", "d", ":", " ", "h", "u", "n", "t", "e",
    "r", "2">>
sqPrivate ==
    <<"s", "s", "h", " ", "-", "-", "-", "-", "-", "B", "E", "G", "I", "N", " ", "R", "S", "A",
    " ", "P", "R", "I", "V", "A", "T", "E", " ", "K", "E", "Y", "-", "-", "-", "-", "-">>
sqApiKey ==
    <<"a", "p", "i", "_", "k", "e", "y", " ", "=", " ", "\"", "a", "b", "c", "d", "e", "f", "g",
    "h", "i", "j", "0", "1", "2", "3", "4", "5", "6", "7", "8", "9", "\"", " ", "e", "c", "2">>
sqRoadmap ==
    <<"e", "c", "2", " ", "r", "o", "a", "d", "m", "a", "p">>
sqBilling ==
    <<"b", "i", "l", "l", "i", "n", "g", " ", "c", "o", "s", "t", " ", "i", "n", "v", "o", "i",
    "c", "e">>
sqVague ==
    <<"m", "y", " ", "v", "m">>
sqBlank ==
    <<" ", " ">>
SupportQueries == {sqKey, sqKeyLower, sqPlain, sqPassword, sqPwd, sqPrivate, sqApiKey, sqRoadmap, sqBilling, sqVague, sqBlank}

\* the texts the model may answer
aFine ==
    <<"C", "h", "e", "c", "k", " ", "t", "h", "e", " ", "s", "e", "c", "u", "r", "i", "t", "y",
    " ", "g", "r", "o", "u", "p", ".">>
aSoon ==
    <<"T", "h", "a", "t", " ", "i", "s", " ", "c", "o", "m", "i", "n", "g", " ", "s", "o", "o",
    "n", ".">>
aLeak ==
    <<"U", "s", "e", " ", "A", "K", "I", "A", "I", "O", "S", "F", "O", "D", "N", "N", "7", "E",
    "X", "A", "M", "P", "L", "E", " ", "h", "e", "r", "e", ".">>
aRival ==
    <<"A", "z", "u", "r", "e", " ", "h", "a", "s", " ", "a", " ", "f", "l", "a", "w", ".">>
ModelAnswers == {aFine, aSoon, aLeak, aRival}

\* what Comprehend may report of a query: nothing, or one text
ComprehendTexts == {{}, {<<"e", "c", "2", " ", "i", "n", "s", "t", "a", "n", "c", "e">>}}

\* The event a stage returns.  A key the stage leaves out reads as FALSE,
\* "" or <<>>, as event.get(key) reads it.
NoEvent == [statusCode |-> 0, error |-> "", query |-> <<>>, session_id |-> "",
            guardrail_triggered |-> FALSE, skip_processing |-> FALSE,
            response |-> "", content |-> <<>>, intent |-> "",
            needs_clarification |-> FALSE, escalation_required |-> FALSE,
            template_id |-> "", output_guardrail_triggered |-> FALSE,
            quality |-> "none"]

NewSessionId == "new"
SessionIds == {"", "s1", "s9"}
SessionsInit == {[session_id |-> "s1", messages |-> <<>>]}
SupportServices == {"table", "comprehend", "bedrock"}

\* ConversationHandler.get_session: None when absent or on a client error
SessionOf(sessions, session_id, ok) ==
    IF ok THEN {s \in sessions : s.session_id = session_id} ELSE {}

\* ConversationHandler.add_message: update_item on the session, errors swallowed
AddMessage(sessions, session_id, message, ok) ==
    IF ok
    THEN {IF s.session_id = session_id
          THEN [s EXCEPT !.messages = Append(@, message)]
          ELSE s : s \in sessions}
    ELSE sessions

\* lambda_capture_query.lambda_handler
Capture(r) ==
    /\ pc[r] = "idle"
    /\ pc' = [pc EXCEPT ![r] = "captured"]
    /\ LET query == req[r].query
           given == req[r].session_id
           blank == \A i \in 1..Len(query) : query[i] \in SpaceChars
           session_id == IF given = "" THEN NewSessionId ELSE given
           checked == validate_input(query)
       IN  IF blank
           THEN /\ loc' = [loc EXCEPT ![r] =
                        [NoEvent EXCEPT !.statusCode = 400,
                                        !.error = "Query is required",
                                        !.query = query]]
                /\ UNCHANGED <<table, calls>>
           ELSE \E ok \in Ok("table") : \E stored \in Ok("table") :
                IF given = "" /\ ~ok
                THEN /\ loc' = [loc EXCEPT ![r] =
                            [NoEvent EXCEPT !.statusCode = 500,
                                            !.error = "ClientError",
                                            !.query = query]]
                     /\ calls' = [calls EXCEPT ![r] = Append(@, "create_session")]
                     /\ UNCHANGED table
                ELSE IF given # "" /\ SessionOf(table, given, ok) = {}
                THEN /\ loc' = [loc EXCEPT ![r] =
                            [NoEvent EXCEPT !.statusCode = 404,
                                            !.error = "Session not found",
                                            !.session_id = given]]
                     /\ calls' = [calls EXCEPT ![r] = Append(@, "get_session")]
                     /\ UNCHANGED table
                ELSE LET sessions ==
                             IF given = ""
                             THEN table \cup {[session_id |-> session_id,
                                               messages |-> <<>>]}
                             ELSE table
                         first == IF given = "" THEN "create_session" ELSE "get_session"
                     IN  IF ~checked.is_safe
                         THEN /\ loc' = [loc EXCEPT ![r] =
                                    [NoEvent EXCEPT
                                        !.statusCode = 200,
                                        !.session_id = session_id,
                                        !.query = query,
                                        !.guardrail_triggered = TRUE,
                                        !.response =
                                            generate_safe_response(checked.issues, <<>>),
                                        !.skip_processing = TRUE]]
                              /\ table' = sessions
                              /\ calls' = [calls EXCEPT ![r] =
                                    @ \o <<first, "validate_input">>]
                         ELSE /\ loc' = [loc EXCEPT ![r] =
                                    [NoEvent EXCEPT
                                        !.statusCode = 200,
                                        !.session_id = session_id,
                                        !.query = query]]
                              /\ table' = AddMessage(sessions, session_id,
                                    [role |-> "user", kind |-> "query",
                                     content |-> query], stored)
                              /\ calls' = [calls EXCEPT ![r] =
                                    @ \o <<first, "validate_input", "add_message">>]
    /\ UNCHANGED <<now, ticks, faulty, config, req, sent, audit, resp>>

\* lambda_detect_intent.lambda_handler
DetectIntent(r) ==
    /\ pc[r] = "captured"
    /\ pc' = [pc EXCEPT ![r] = "intent"]
    /\ LET event == loc[r]
       IN  IF event.skip_processing
           THEN UNCHANGED <<loc, calls>>
           ELSE IF event.query = <<>>
           THEN /\ loc' = [loc EXCEPT ![r].error =
                        "Query is required for intent detection"]
                /\ UNCHANGED calls
           ELSE \E ok \in Ok("comprehend") :
                \E entity_texts \in (IF ok THEN ComprehendTexts ELSE {{}}) :
                \E phrase_texts \in (IF ok THEN ComprehendTexts ELSE {{}}) :
                    LET result == detect_intent(event.query, entity_texts, phrase_texts)
                    IN  /\ loc' = [loc EXCEPT
                                ![r].intent = result.intent,
                                ![r].needs_clarification = result.needs_clarification,
                                ![r].escalation_required = result.escalation_required,
                                ![r].template_id = result.template_id]
                        /\ calls' = [calls EXCEPT ![r] =
                                @ \o <<"detect_entities", "detect_key_phrases",
                                       "detect_sentiment">>]
    /\ UNCHANGED <<now, ticks, faulty, config, table, req, sent, audit, resp>>

\* format_history_for_prompt: the messages of the session, or none
HistoryForPrompt(sessions, session_id, ok) ==
    IF SessionOf(sessions, session_id, ok) = {} THEN <<>>
    ELSE (CHOOSE s \in SessionOf(sessions, session_id, ok) : TRUE).messages

\* lambda_generate_response.lambda_handler (the text of the template is not
\* modelled: every template holds the query and the history)
GenerateResponse(r) ==
    /\ pc[r] = "intent"
    /\ pc' = [pc EXCEPT ![r] = "generated"]
    /\ LET event == loc[r]
       IN  IF event.skip_processing
           THEN UNCHANGED <<loc, calls, sent, table>>
           ELSE IF event.needs_clarification \/ event.escalation_required
           THEN \E stored \in Ok("table") :
                LET kind == IF event.needs_clarification
                            THEN "clarification" ELSE "escalation"
                IN  /\ loc' = [loc EXCEPT ![r].response = kind]
                    /\ table' = IF event.session_id # ""
                                THEN AddMessage(table, event.session_id,
                                        [role |-> "assistant", kind |-> kind,
                                         content |-> <<>>], stored)
                                ELSE table
                    /\ UNCHANGED <<calls, sent>>
           ELSE \E read \in Ok("table") : \E ok \in Ok("bedrock") :
                \E stored \in Ok("table") : \E content \in ModelAnswers :
                LET template_id == IF event.template_id = ""
                                   THEN "general_support" ELSE event.template_id
                    prompt == [template_id |-> template_id,
                               query |-> event.query,
                               history |->
                                   HistoryForPrompt(table, event.session_id, read)]
                    checked == validate_output(content)
                    kind == IF checked.is_safe THEN "model"
                            ELSE generate_safe_response(<<>>, checked.issues)
                IN  /\ calls' = [calls EXCEPT ![r] = Append(@, "invoke_model")]
                    /\ IF ~ok
                       THEN /\ loc' = [loc EXCEPT
                                    ![r].error = "Response generation error",
                                    ![r].response = "apology"]
                            /\ UNCHANGED <<sent, table>>
                       ELSE /\ sent' = [sent EXCEPT ![r].inference = Append(@, prompt)]
                            /\ loc' = [loc EXCEPT
                                    ![r].response = kind,
                                    ![r].content =
                                        IF checked.is_safe THEN content ELSE <<>>,
                                    ![r].template_id = template_id,
                                    ![r].output_guardrail_triggered = ~checked.is_safe]
                            /\ table' = AddMessage(table, event.session_id,
                                    [role |-> "assistant", kind |-> kind,
                                     content |->
                                        IF checked.is_safe THEN content ELSE <<>>],
                                    stored)
    /\ UNCHANGED <<now, ticks, faulty, config, req, audit, resp>>

\* lambda_validate_quality.lambda_handler (the scores are not modelled)
ValidateQuality(r) ==
    /\ pc[r] = "generated"
    /\ pc' = [pc EXCEPT ![r] = "validated"]
    /\ LET event == loc[r]
       IN  IF event.skip_processing
           THEN UNCHANGED loc
           ELSE IF event.response = ""
           THEN loc' = [loc EXCEPT ![r].quality = "no_response"]
           ELSE loc' = [loc EXCEPT ![r].quality = "scored"]
    /\ UNCHANGED <<now, ticks, faulty, config, table, req, calls, sent, audit, resp>>

InitSupport ==
    /\ now = TicksPerSecond
    /\ ticks = 0
    /\ faulty \in {S \in SUBSET SupportServices : Cardinality(S) <= MaxFaulty}
    /\ config = [governance |-> TRUE, guardrail_id |-> TRUE]
    /\ table = SessionsInit
    /\ pc = [r \in Requests |-> "idle"]
    /\ \E q \in SupportQueries : \E s \in SessionIds :
        req = [r \in Requests |-> [query |-> q, session_id |-> s, user_id |-> "u1"]]
    /\ loc = [r \in Requests |-> NoEvent]
    /\ calls = [r \in Requests |-> <<>>]
    /\ sent = [r \in Requests |-> SentInit]
    /\ audit = [r \in Requests |-> <<>>]
    /\ resp = [r \in Requests |-> NoResponse]

\* the stages in the order of the workflow, each given the event the
\* stage before it returned
NextSupport ==
    \/ Capture("r1")
    \/ DetectIntent("r1")
    \/ GenerateResponse("r1")
    \/ ValidateQuality("r1")

SpecSupport == InitSupport /\ [][NextSupport]_vars

\* Two concurrent requests of one conversation, with the clock and with no
\* faulty service.  The client chooses the conversation id, which may be the
\* partition key of the cache item of a query.
ConvTexts == {qPii, qStd}

ClientIds == ConversationIds \cup {CacheItemId(qStd)}

ConvBodies ==
    {[has_query |-> TRUE, query |-> q, conversation_id |-> c, stream |-> FALSE,
      user_id |-> u] : q \in ConvTexts, c \in ClientIds, u \in Users}

InitConv ==
    /\ Init
    /\ config = [governance |-> TRUE, guardrail_id |-> FALSE]
    /\ faulty = {}

NextConv ==
    \/ Tick
    \/ \E r \in Requests :
        \/ Receive(r, ConvBodies)
        \/ PreChecks(r)
        \/ GetHistory(r)
        \/ CacheLookup(r)
        \/ Generate(r)
        \/ Record(r)
        \/ CacheStore(r)

SpecConv == InitConv /\ [][NextConv]_vars

\* One request of a conversation that already holds n turns, one per second,
\* written by store_conversation in earlier requests.
TurnQuery(i) == <<"turn", SP, ToString(i)>>

RECURSIVE SeededTable(_)
SeededTable(n) ==
    IF n = 0 THEN {}
    ELSE store_conversation(SeededTable(n - 1), <<"conv", "c1">>, TurnQuery(n),
                            GenText("simple"), n * TicksPerSecond, TRUE)

HistTexts == {qStd, qAdv, qStatus}

HistBodies ==
    {[has_query |-> TRUE, query |-> q, conversation_id |-> c, stream |-> FALSE,
      user_id |-> u] : q \in HistTexts, c \in ConversationIds, u \in Users}

InitHist ==
    /\ now = (MaxHistory + 1) * TicksPerSecond
    /\ ticks = 0
    /\ faulty = {}
    /\ config = [governance |-> TRUE, guardrail_id |-> FALSE]
    /\ \E n \in 0..MaxHistory : table = SeededTable(n)
    /\ pc = [r \in Requests |-> "idle"]
    /\ req = [r \in Requests |->
                [has_query |-> FALSE, query |-> <<>>, conversation_id |-> <<>>,
                 stream |-> FALSE, user_id |-> "u1"]]
    /\ loc = [r \in Requests |-> LocInit]
    /\ calls = [r \in Requests |-> <<>>]
    /\ sent = [r \in Requests |-> SentInit]
    /\ audit = [r \in Requests |-> <<>>]
    /\ resp = [r \in Requests |-> NoResponse]

NextHist ==
    \/ Tick
    \/ \E r \in {"r1"} :
        \/ Receive(r, HistBodies)
        \/ PreChecks(r)
        \/ GetHistory(r)
        \/ CacheLookup(r)
        \/ Generate(r)
        \/ Record(r)
        \/ CacheStore(r)

SpecHist == InitHist /\ [][NextHist]_vars

\* ------------------------------------------------------------------ claims
Done(r) == pc[r] = "done"
Generated(r) == sent[r].inference # <<>>
Has(seq, x) == \E i \in 1..Len(seq) : seq[i] = x
HasEvent(r, event_type, severity) ==
    \E i \in 1..Len(audit[r]) :
        /\ audit[r][i].event_type = event_type
        /\ audit[r][i].severity = severity
        /\ ("audit_table" \notin faulty => audit[r][i].stored)

\* the text the first tier of the chain that is up generates, else the apology
FirstUp(chain, up) ==
    IF \E i \in 1..Len(chain) : chain[i] \in up
    THEN GenText(chain[CHOOSE i \in 1..Len(chain) :
                        chain[i] \in up /\ \A j \in 1..(i - 1) : chain[j] \notin up])
    ELSE APOLOGY

\* C1: invoke_model_with_fallback always returns a text and never raises:
\* whatever tier is selected and whichever tiers fail, the handler goes on
\* with the text of the first tier of the chain that succeeds, or with the
\* fixed apology when every tier of the chain fails.
C1_FallbackAlwaysReturnsText ==
    \A r \in Requests :
        (Generated(r) /\ ~req[r].stream) =>
            /\ loc[r].generated = FirstUp(fallback_chain[loc[r].model_tier], loc[r].up)
            /\ loc[r].generated \in {GenText(t) : t \in Tiers} \cup {APOLOGY}
            /\ resp[r].status # 500
            /\ pc[r] \in {"record", "cache_store", "done"}

C1_Witness ==
    \E r \in Requests :
        /\ Generated(r) /\ ~req[r].stream
        /\ loc[r].model_tier = "advanced"
        /\ loc[r].up = {"simple"}
        /\ loc[r].generated = GenText("simple")

C1_WitnessApology ==
    \E r \in Requests :
        /\ Generated(r) /\ ~req[r].stream /\ Done(r)
        /\ loc[r].model_tier = "standard"
        /\ loc[r].up = {}
        /\ loc[r].generated = APOLOGY

TierUsed(data) ==
    IF "tier_used" \in DOMAIN data THEN data.tier_used ELSE data.model_tier
FallbackOccurred(data) ==
    IF "fallback_occurred" \in DOMAIN data THEN data.fallback_occurred ELSE FALSE

\* C2: the response reports the tier that answered: tier_used is the tier
\* whose invocation produced the text (none when the chain is exhausted) and
\* fallback_occurred tells whether it differs from the selected tier.
C2_ResponseReportsAnsweringTier ==
    \A r \in Requests :
        (Done(r) /\ resp[r].status = 200 /\ ~loc[r].cache_hit) =>
            /\ TierUsed(resp[r].data) = loc[r].answered
            /\ FallbackOccurred(resp[r].data) = (loc[r].answered # loc[r].model_tier)

IsCacheItem(item) == item.timestamp = 0 /\ "response_data" \in DOMAIN item

TtlTicks == CACHE_TTL_SECONDS * TicksPerSecond
LooksUp(r) == pc[r] = "cache_lookup" /\ pc'[r] # "cache_lookup"
EntriesFor(r) ==
    {i \in table : IsCacheItem(i) /\ i.conversation_id = CacheItemId(req[r].query)}
\* the clock when the entry was written, as its writer saw it
WrittenAt(item) == loc[item.response_data.request_id].cache_written_at

\* C3: the cache never serves a stale entry: a lookup returns a payload only
\* if an entry is stored under the key and now - cached_at < ttl for it, the
\* payload being that entry's; and it reports a miss when no entry is stored
\* and once ttl seconds have elapsed since the entry was written.
C3_NoStaleCacheHit ==
    [][\A r \in Requests :
        LooksUp(r) =>
            /\ loc'[r].cache_hit =>
                \E i \in EntriesFor(r) :
                    /\ now - i.cached_at * TicksPerSecond < TtlTicks
                    /\ now - WrittenAt(i) < TtlTicks
                    /\ resp'[r].status = 200
                    /\ resp'[r].data.response = i.response_data.response
                    /\ resp'[r].data.request_id = i.response_data.request_id
            /\ (\A i \in EntriesFor(r) : now - WrittenAt(i) >= TtlTicks) =>
                /\ ~loc'[r].cache_hit
                /\ pc'[r] = "generate"
                /\ resp'[r] = NoResponse]_vars

\* an entry written by one request has expired when the other looks it up
C3_Witness ==
    \E r \in Requests, w \in Requests :
        /\ r # w
        /\ Done(w) /\ loc[w].cache_written /\ w \in loc[r].preceded_by
        /\ CacheItemId(req[r].query) = CacheItemId(req[w].query)
        /\ pc[r] = "generate" /\ loc[r].cache_read_ok /\ ~loc[r].cache_hit
        /\ now - loc[w].cache_written_at >= TtlTicks

Normalised(query) == Strip(Lower(query))

C5_ApologyNeverCached ==
    /\ \A r \in Requests :
        (Generated(r) /\ loc[r].answered = "none") => ~loc[r].cache_written
    /\ \A item \in table :
        IsCacheItem(item) => item.response_data.response # APOLOGY

RedactedQuery(r) == Redact(req[r].query, EntitiesOf(req[r].query))

\* C6: whenever PII detection finds an entity in the query, the text sent
\* to retrieval and the query placed in the prompt sent to the inference
\* service is the redacted text, never the original.
C6_RedactedTextDownstream ==
    \A r \in Requests :
        loc[r].pii_found =>
            /\ \A i \in 1..Len(sent[r].retrieval) :
                sent[r].retrieval[i] = RedactedQuery(r)
            /\ \A i \in 1..Len(sent[r].inference) :
                sent[r].inference[i].prompt.query = RedactedQuery(r)

ModelCalls == {"embed", "search", "invoke_model"}

\* C7: when the input safety classifier signals intervention, the request
\* is rejected before any embedding, search or inference call, and a
\* CONTENT_BLOCKED audit event of severity MEDIUM is logged.
C7_InputBlockRejectsBeforeModel ==
    \A r \in Requests :
        loc[r].input_blocked =>
            /\ Done(r)
            /\ resp[r].status = 400
            /\ resp[r].error = "Content blocked by safety guardrails"
            /\ \A i \in 1..Len(calls[r]) : calls[r][i] \notin ModelCalls
            /\ sent[r] = SentInit
            /\ HasEvent(r, "CONTENT_BLOCKED", "MEDIUM")

C7_Witness ==
    \E r \in Requests :
        /\ loc[r].input_blocked /\ Done(r)
        /\ req[r].query = qAdv
        /\ HasEvent(r, "CONTENT_BLOCKED", "MEDIUM")

\* the conversation turns and cache entries a request has written
TurnsOf(r) == {i \in table : ~IsCacheItem(i) /\ i.conversation_id = loc[r].conversation_id}
CacheEntriesOf(r) == {i \in table : IsCacheItem(i) /\ i.response_data.request_id = r}

\* C8: when the output safety check signals intervention, the answer
\* returned, stored in the conversation history and written to the cache is
\* the fixed safe message, never the generated text, and a RESPONSE_BLOCKED
\* audit event of severity HIGH is logged.
C8_OutputBlockReplacesAnswer ==
    \A r \in Requests :
        loc[r].output_blocked =>
            /\ loc[r].response = SAFE_MESSAGE
            /\ HasEvent(r, "RESPONSE_BLOCKED", "HIGH")
            /\ \A i \in TurnsOf(r) : i.response = SAFE_MESSAGE
            /\ \A i \in CacheEntriesOf(r) : i.response_data.response = SAFE_MESSAGE
            /\ Done(r) => /\ resp[r].status = 200
                          /\ resp[r].data.response = SAFE_MESSAGE

C8_Witness ==
    \E r \in Requests :
        /\ loc[r].output_blocked /\ Done(r)
        /\ loc[r].generated = GenText("standard")
        /\ TurnsOf(r) # {}
        /\ CacheEntriesOf(r) # {}
        /\ resp[r].data.response = SAFE_MESSAGE

\* C9: only an empty query produces a caller-visible error: every request
\* with a non-empty query is answered with status 200.
C9_OnlyEmptyQueryErrors ==
    \A r \in Requests :
        (Done(r) /\ ~NotQuery(req[r])) => resp[r].status = 200

C11_CacheLookupIsFirstStep ==
    \A r \in Requests :
        loc[r].cache_hit =>
            /\ calls[r] = <<"get_cache_item">>
            /\ audit[r] = <<>>
            /\ sent[r] = SentInit

\* C12: for every interleaving of two requests with the same normalised
\* query, both complete with a full response, the cache never holds more
\* than one entry for the key, a successful cache write leaves exactly the
\* writer's complete payload under the key (last write wins), and when the
\* table works the entry left at the end is the payload one of them returned.
C12_LastWriteWins ==
    [][/\ \A r \in Requests :
            (pc'[r] = "done") =>
                /\ resp'[r].status = 200
                /\ resp'[r].data.response \in {GenText(t) : t \in Tiers}
                /\ resp'[r].data.request_id \in Requests
       /\ \A r \in Requests :
            Cardinality({i \in table' : IsCacheItem(i)
                            /\ i.conversation_id = CacheItemId(req'[r].query)}) <= 1
       /\ \A r \in Requests :
            (pc[r] = "cache_store" /\ pc'[r] = "done" /\ loc'[r].cache_written) =>
                {i.response_data : i \in {j \in table' : IsCacheItem(j)
                            /\ j.conversation_id = CacheItemId(req[r].query)}}
                    = {[resp'[r].data EXCEPT !.cached = FALSE]}
       /\ ((\A r \in Requests : pc'[r] = "done") /\ "table" \notin faulty) =>
            \E w \in Requests :
                {i.response_data : i \in {j \in table' : IsCacheItem(j)}}
                    = {[f \in DOMAIN resp'[w].data \ {"cache_age_seconds"} |->
                            IF f = "cached" THEN FALSE ELSE resp'[w].data[f]]}
      ]_vars

\* both requests missed and both wrote: neither was received after the
\* other had finished, and one entry is left
C12_Witness ==
    \E a \in Requests, b \in Requests :
        /\ a # b /\ Done(a) /\ Done(b)
        /\ a \notin loc[b].preceded_by /\ b \notin loc[a].preceded_by
        /\ ~loc[a].cache_hit /\ ~loc[b].cache_hit
        /\ loc[a].cache_written /\ loc[b].cache_written
        /\ Cardinality({i \in table : IsCacheItem(i)}) = 1
        /\ \A i \in table : IsCacheItem(i) => i.response_data = resp[b].data

EventsOf(r, event_type) ==
    {audit[r][i] : i \in {j \in 1..Len(audit[r]) : audit[r][j].event_type = event_type}}

\* C13: every QUERY_PROCESSED audit event has severity HIGH if PII was
\* detected in the query or the input was blocked by the guardrail, and
\* severity INFO otherwise.
C13_QueryProcessedSeverity ==
    \A r \in Requests :
        \A e \in EventsOf(r, "QUERY_PROCESSED") :
            e.severity = IF loc[r].pii_found \/ loc[r].input_blocked
                         THEN "HIGH" ELSE "INFO"

AllEvents(r) == {audit[r][i] : i \in 1..Len(audit[r])}

\* C14: every audit event recorded with severity HIGH or CRITICAL triggers
\* a compliance notification, whatever became of the writes to the log
\* stream and the archive; events of severity INFO or MEDIUM trigger none.
C14_HighSeverityNotifies ==
    \A r \in Requests :
        \A e \in AllEvents(r) :
            /\ (e.stored /\ e.severity \in {"HIGH", "CRITICAL"}) => e.alert_sent
            /\ (e.severity \in {"INFO", "MEDIUM"}) => ~e.alert_sent

\* C15: a failure of an audit destination or of the cache store never
\* aborts the request and never changes the status or the answer text: a
\* failed cache read is a miss, a failed cache write is ignored, and an
\* error status comes only from an empty query, an input block or a
\* streaming inference failure.
C15_StoreFailuresSwallowed ==
    \A r \in Requests :
        /\ (Has(calls[r], "get_cache_item") /\ ~loc[r].cache_read_ok) =>
                /\ ~loc[r].cache_hit
                /\ Done(r) => Has(calls[r], "embed")
        /\ (Done(r) /\ Has(calls[r], "put_cache_item")) =>
                /\ resp[r].status = 200
                /\ resp[r].data.response =
                        IF loc[r].output_blocked THEN SAFE_MESSAGE ELSE loc[r].generated
        /\ (Done(r) /\ resp[r].status # 200) =>
                \/ resp[r].status = 400 /\ (req[r].query = <<>> \/ ~req[r].has_query)
                \/ resp[r].status = 400 /\ loc[r].input_blocked
                \/ resp[r].status = 500 /\ req[r].stream /\ loc[r].answered = "none"
        /\ (Done(r) /\ \E e \in AllEvents(r) : ~e.stored \/ ~e.archived \/ ~e.streamed) =>
                \/ resp[r].status = 200
                \/ loc[r].input_blocked
                \/ req[r].stream /\ loc[r].answered = "none"

\* the cache read and the cache write both failed and the request was
\* answered with the generated text
C15_Witness ==
    \E r \in Requests :
        /\ Done(r) /\ resp[r].status = 200
        /\ Has(calls[r], "get_cache_item") /\ ~loc[r].cache_read_ok
        /\ Has(calls[r], "put_cache_item") /\ ~loc[r].cache_written
        /\ resp[r].data.response = GenText("advanced")

\* an audit event was lost in the audit table and the request was answered
C15_WitnessAudit ==
    \E r \in Requests :
        /\ Done(r) /\ resp[r].status = 200
        /\ \E e \in AllEvents(r) : e.event_type = "QUERY_PROCESSED" /\ ~e.stored
        /\ resp[r].data.response = GenText("simple")

\* C16: fail-open policy: when the safety classifier call errors, on the
\* input or on the output, the content is treated as safe and processing
\* goes on; when the PII detection call errors the query is treated as
\* holding no PII and is processed as given; the request is neither
\* rejected nor failed for it.
C16_FailOpen ==
    \A r \in Requests :
        /\ loc[r].input_check_error =>
                /\ ~loc[r].input_blocked
                /\ resp[r].error # "Content blocked by safety guardrails"
                /\ EventsOf(r, "CONTENT_BLOCKED") = {}
                /\ Has(calls[r], "detect_pii_entities")
        /\ loc[r].pii_error =>
                /\ ~loc[r].has_pii
                /\ loc[r].query_for_processing = req[r].query
                /\ EventsOf(r, "PII_DETECTED") = {}
                /\ pc[r] # "prechecks"
        /\ loc[r].output_check_error =>
                /\ ~loc[r].output_blocked
                /\ loc[r].response = loc[r].generated
                /\ EventsOf(r, "RESPONSE_BLOCKED") = {}
        /\ ((loc[r].input_check_error \/ loc[r].pii_error \/ loc[r].output_check_error)
                /\ Done(r)) =>
                \/ resp[r].status = 200
                \/ resp[r].status = 500 /\ req[r].stream /\ loc[r].answered = "none"

\* the classifier failed on the input and on the output of one request,
\* which was answered with the generated text
C16_Witness ==
    \E r \in Requests :
        /\ loc[r].input_check_error /\ loc[r].output_check_error
        /\ Done(r) /\ resp[r].status = 200
        /\ resp[r].data.response = GenText("standard")

TierRank(tier) ==
    CASE tier = "simple" -> 1 [] tier = "standard" -> 2 [] tier = "advanced" -> 3
      [] OTHER -> 0

\* C18: select_model_tier maps a score s to exactly one of the three tiers
\* by fixed thresholds (s >= 60 advanced, 30 <= s < 60 standard, s < 30
\* simple), and the mapping is monotonic non-decreasing in s.
C18_TierThresholds ==
    (pc["r1"] = "tiered") =>
        LET s == loc["r1"].complexity_score
            tier == loc["r1"].model_tier
        IN  /\ tier \in Tiers
            /\ (s >= 60) <=> (tier = "advanced")
            /\ (s >= 30 /\ s < 60) <=> (tier = "standard")
            /\ (s < 30) <=> (tier = "simple")
            /\ \A lower \in 0..s : TierRank(TierOfScore(lower)) <= TierRank(tier)

C18_Witness ==
    /\ pc["r1"] = "tiered"
    /\ loc["r1"].complexity_score = 60
    /\ loc["r1"].model_tier = "advanced"
    /\ TierOfScore(59) = "standard"
    /\ TierOfScore(30) = "standard"
    /\ TierOfScore(29) = "simple"

Dimensions == {"relevance", "coherence", "completeness", "accuracy",
               "conciseness", "groundedness", "overall"}

\* C19: for every query, answer and chunk list, with any relevance scores
\* the search service can return, each of the six dimension scores and the
\* overall score returned by evaluate_response_quality lies in [0,1].
C19_QualityScoresInUnitRange ==
    (pc["r1"] = "evaluated") =>
        \A d \in Dimensions :
            /\ loc["r1"].quality_scores[d] >= 0
            /\ loc["r1"].quality_scores[d] <= One

\* every dimension other than accuracy, and the overall score whenever the
\* accuracy is itself within [0,1], stays within [0,1]
C19_OtherDimensionsInUnitRange ==
    (pc["r1"] = "evaluated") =>
        LET scores == loc["r1"].quality_scores
        IN  /\ \A d \in Dimensions \ {"accuracy", "overall"} :
                scores[d] >= 0 /\ scores[d] <= One
            /\ scores.accuracy >= 0
            /\ (scores.accuracy <= One) => (scores.overall >= 0 /\ scores.overall <= One)

\* C20: an input containing a string that matches the AWS-style access-key
\* pattern (AKIA followed by 16 alphanumerics) is always flagged unsafe by
\* the input guardrail and never reaches an inference call: the capture
\* stage sets skip_processing, and intent detection, response generation
\* and quality validation pass the event through without invoking a model.
C20_AccessKeyNeverReachesInference ==
    \A r \in Requests :
        (MatchesAccessKeyAnyCase(req[r].query) /\ pc[r] # "idle") =>
            /\ loc[r].guardrail_triggered
            /\ loc[r].skip_processing
            /\ sent[r].inference = <<>>
            /\ ~Has(calls[r], "invoke_model")

\* once the capture stage has run the guardrail on a query holding AKIA and
\* 16 upper-case letters or digits, the event is marked skip_processing and
\* no later stage changes it or calls a service
C20_CheckedKeyIsSkipped ==
    [][\A r \in Requests :
        (MatchesAccessKey(req[r].query) /\ Has(calls[r], "validate_input")) =>
            /\ loc[r].skip_processing /\ loc[r].guardrail_triggered
            /\ loc[r].response = "credentials"
            /\ loc'[r] = loc[r] /\ calls'[r] = calls[r] /\ sent'[r] = SentInit]_vars

\* the credential-like entries of sensitive_patterns: AWS Access Key,
\* Password, Private Key, API Key
CredentialPatterns == {1, 3, 4, 5}

\* C21: whenever the input guardrail flags an input for a credential-like
\* pattern (AWS access key, password assignment, private-key header, API
\* key), the safe response generated for it is the credentials message, not
\* a blocked-topic message and not the generic rephrase message.
C21_CredentialPatternGetsCredentialsMessage ==
    \A r \in Requests :
        (/\ pc[r] # "idle"
         /\ loc[r].guardrail_triggered
         /\ \E k \in CredentialPatterns : PatternMatches(k, req[r].query))
        => loc[r].response = "credentials"

\* an issue whose text holds "key" or "credentials" (every credential pattern
\* but Password, and the account_credentials topic) gets the credentials message
C21_KeyIssueGetsCredentialsMessage ==
    \A r \in Requests :
        (/\ pc[r] # "idle"
         /\ loc[r].guardrail_triggered
         /\ \/ \E k \in CredentialPatterns \ {3} : PatternMatches(k, req[r].query)
            \/ \E keyword \in blocked_topics[2].keywords :
                    Find(LowerText(req[r].query), keyword))
        => loc[r].response = "credentials"

\* C22: the original text of a query in which PII was detected is in no
\* prompt sent to inference: not as the query of the request's own prompt and
\* not, through the stored turns, in the history of a later request's prompt.
PiiQueries == {req[q].query : q \in {x \in Requests : loc[x].pii_found}}

PromptTexts(prompt) ==
    {prompt.query} \cup {prompt.history[j].human : j \in 1..Len(prompt.history)}

C22_PiiTextNeverInPrompt ==
    \A r \in Requests : \A i \in 1..Len(sent[r].inference) :
        PromptTexts(sent[r].inference[i].prompt) \cap PiiQueries = {}

\* C22, the request's own prompt alone: it carries the redacted query
C22_OwnPromptIsRedacted ==
    \A r \in Requests : \A i \in 1..Len(sent[r].inference) :
        loc[r].pii_found => sent[r].inference[i].prompt.query # req[r].query

C22_OwnPromptWitness ==
    \E r \in Requests : loc[r].pii_found /\ Len(sent[r].inference) > 0

\* C23: the conversation history is append-only: no step removes or replaces
\* a stored turn, and the turn write of a request that took the non-cached
\* path adds exactly one turn, whatever the interleaving and the timing.
StoredTurns(tbl) == {i \in tbl : ~IsCacheItem(i)}

Records(r) == pc[r] = "record" /\ pc'[r] = "cache_store"

C23_HistoryAppendOnly ==
    [][/\ StoredTurns(table) \subseteq StoredTurns(table')
       /\ \A r \in Requests :
            Records(r) =>
                Cardinality(StoredTurns(table')) = Cardinality(StoredTurns(table)) + 1]_vars

\* C23, the turn writes that fall in different clock seconds (or in different
\* conversations): each adds one turn and keeps the others
C23_AppendOnlyAcrossSeconds ==
    [][\A r \in Requests :
        (/\ Records(r)
         /\ \A i \in StoredTurns(table) :
                ~(i.conversation_id = loc[r].conversation_id /\ i.timestamp = Seconds(now)))
        => /\ StoredTurns(table) \subseteq StoredTurns(table')
           /\ Cardinality(StoredTurns(table')) = Cardinality(StoredTurns(table)) + 1]_vars

\* C24: invoke_model_with_fallback attempts the tiers strictly in the order
\* of the chain of the selected tier (advanced: advanced, standard, simple;
\* standard: standard, simple; simple: simple), each at most once, makes no
\* invocation after the first success, and the answering tier is in the chain.
ChainOf(tier) ==
    CASE tier = "advanced" -> <<"advanced", "standard", "simple">>
      [] tier = "standard" -> <<"standard", "simple">>
      [] OTHER -> <<"simple">>

Attempts(r) == [i \in 1..Len(sent[r].inference) |-> sent[r].inference[i].tier]

C24_FallbackFollowsChain ==
    \A r \in Requests :
        (Generated(r) /\ ~req[r].stream) =>
            LET chain == ChainOf(loc[r].model_tier)
                tried == Attempts(r)
            IN  /\ Len(tried) <= Len(chain)
                /\ tried = SubSeq(chain, 1, Len(tried))
                /\ \A i \in 1..(Len(tried) - 1) : tried[i] \notin loc[r].up
                /\ Len(tried) < Len(chain) => tried[Len(tried)] \in loc[r].up
                /\ loc[r].answered # "none" =>
                        /\ loc[r].answered = tried[Len(tried)]
                        /\ loc[r].answered \in loc[r].up

C24_Witness ==
    \E r \in Requests :
        /\ Generated(r) /\ ~req[r].stream
        /\ loc[r].model_tier = "advanced"
        /\ Attempts(r) = <<"advanced", "standard">>
        /\ loc[r].answered = "standard"

\* C25: when the PII detector reports at least one entity,
\* detect_and_redact_pii answers has_pii = true with the redacted text, also
\* when the audit write or the metric emission fails.
C25_DetectedPiiIsRedacted ==
    \A r \in Requests :
        (config.governance /\ loc[r].pii_found) =>
            /\ loc[r].has_pii
            /\ loc[r].query_for_processing # req[r].query

\* C25, the audit write alone: its failure does not change the result
C25_AuditFailureKeepsRedaction ==
    \A r \in Requests :
        (config.governance /\ loc[r].pii_found /\ "cloudwatch" \notin faulty) =>
            /\ loc[r].has_pii
            /\ loc[r].query_for_processing # req[r].query

\* C26: the model identifier, the tier and the cost reported in the response
\* are those of the tier that produced the answer, also after a fallback.
ReportsTier(r, tier) ==
    /\ resp[r].data.model = models[tier].id
    /\ resp[r].data.model_tier = tier
    /\ resp[r].data.cost = calculate_cost(PromptTokens(loc[r].prompt),
                                          ResponseTokens(loc[r].response), models[tier])

Answered(r) ==
    Done(r) /\ resp[r].status = 200 /\ ~loc[r].cache_hit /\ loc[r].answered # "none"

C26_ReportedModelIsAnsweringTier ==
    \A r \in Requests : Answered(r) => ReportsTier(r, loc[r].answered)

\* C26, what the code reports: the selected tier, which is the answering
\* tier when no fallback took place
C26_ReportedModelIsSelectedTier ==
    \A r \in Requests : Answered(r) => ReportsTier(r, loc[r].model_tier)

\* C27: an intervention of the output guardrail produces exactly one
\* RESPONSE_BLOCKED audit event, and so at most one HIGH notification.
ResponseBlockedEvents(r) ==
    {i \in 1..Len(audit[r]) : audit[r][i].event_type = "RESPONSE_BLOCKED"}

C27_OneResponseBlockedEvent ==
    \A r \in Requests :
        loc[r].output_blocked =>
            /\ Cardinality(ResponseBlockedEvents(r)) = 1
            /\ Cardinality({i \in ResponseBlockedEvents(r) : audit[r][i].alert_sent}) <= 1

\* C27, what the code does: two events for one intervention, the first
\* without the user, the second with the user of the request
C27_TwoResponseBlockedEvents ==
    \A r \in Requests :
        /\ loc[r].output_blocked =>
            \E i, j \in ResponseBlockedEvents(r) :
                /\ ResponseBlockedEvents(r) = {i, j} /\ i < j
                /\ audit[r][i].user_id = "anonymous"
                /\ audit[r][j].user_id = loc[r].user_id
        /\ ~loc[r].output_blocked => ResponseBlockedEvents(r) = {}

\* C28: each attempt of the fallback chain invokes the model with the
\* max-token and temperature settings of the attempted tier, not with those
\* of the tier selected at first.
C28_AttemptUsesOwnSettings ==
    \A r \in Requests : \A i \in 1..Len(sent[r].inference) :
        ~req[r].stream =>
            LET call == sent[r].inference[i] IN
            /\ call.model_id = models[call.tier].id
            /\ call.max_tokens = models[call.tier].max_tokens
            /\ call.temperature = models[call.tier].temperature

\* C28, what the code does: the attempted tier's model and max_tokens, with
\* the temperature of the selected tier
C28_AttemptUsesSelectedTemperature ==
    \A r \in Requests : \A i \in 1..Len(sent[r].inference) :
        ~req[r].stream =>
            LET call == sent[r].inference[i] IN
            /\ call.model_id = models[call.tier].id
            /\ call.max_tokens = models[call.tier].max_tokens
            /\ call.temperature = models[loc[r].model_tier].temperature

\* C29: for a conversation with n stored turns the next prompt contains
\* exactly the most recent min(3, n) exchanges, in chronological order, and
\* none older, for every n.
RecentExchanges == 3

HumanLines(prompt) == [j \in 1..Len(prompt.history) |-> prompt.history[j].human]

QueriesOf(turns) == [j \in 1..Len(turns) |-> turns[j].query]

C29_PromptHoldsLastThreeExchanges ==
    \A r \in Requests :
        pc[r] = "record" =>
            HumanLines(loc[r].prompt) =
                QueriesOf(LastN(AscendingByTimestamp(TurnsOf(r)), RecentExchanges))

\* C29, what the code does: of the ten oldest turns, the last six
C29_PromptHoldsSixOfOldestTen ==
    \A r \in Requests :
        pc[r] = "record" =>
            HumanLines(loc[r].prompt) =
                QueriesOf(LastN(FirstN(AscendingByTimestamp(TurnsOf(r)), HistoryLimit),
                                PromptHistoryWindow))

\* C30: cache entries and conversation turns share the table and never mix:
\* for every conversation id the client supplies, the history read returns
\* only turns written by store_conversation for that id, never a cache entry,
\* and no turn write overwrites a cache entry.
HistoryIsTurnsOnly(r) ==
    \A j \in 1..Len(loc[r].conversation_history) :
        /\ ~IsCacheItem(loc[r].conversation_history[j])
        /\ loc[r].conversation_history[j].conversation_id = loc[r].conversation_id

TurnWriteKeepsCacheEntries ==
    \A r \in Requests :
        Records(r) => {i \in table : IsCacheItem(i)} \subseteq table'

C30_HistoryAndCacheNeverMix ==
    [][(\A r \in Requests : HistoryIsTurnsOnly(r)') /\ TurnWriteKeepsCacheEntries]_vars

\* C30, the conversation ids that are not the key of a cache item
C30_NoMixForPlainIds ==
    [][/\ \A r \in Requests :
            loc'[r].conversation_id \in ConversationIds => HistoryIsTurnsOnly(r)'
       /\ TurnWriteKeepsCacheEntries]_vars

====
